---- MODULE Spec2Model ----
(***************************************************************************)
(* A model of the papyra actor runtime (src/papyra/system.py, ref.py,      *)
(* mailbox.py).  Coroutines are modelled as tasks with an explicit call    *)
(* stack of frames; scheduling is cooperative: the variable cur names the  *)
(* task that holds the event loop, and a task gives it up only where the   *)
(* code awaits (a checkpoint of a stream send/receive, a blocked send or   *)
(* receive, a suspending user hook) or ends.                               *)
(* References are modelled by the rid they hold: ref.ActorRef as ref.py     *)
(* defines it (tell and ask test _is_alive and put into the mailbox), built *)
(* by system.py with the liveness lambda of spawn.                          *)
(***************************************************************************)
EXTENDS Integers, Sequences, FiniteSets, TLC

\* ---------------------------------------------------------------- bounds
MaxActors == 2
MaxCalls == 2
MaxTime == 2
Capacity == 2
MaxRestarts == 1
WithinSeconds == 1
MaxPushes == 4
DeadLetterCapacity == 2
\* longest system id of an address
MaxSystemLen == 2
\* largest actor id of an address
MaxActorId == 11
\* calls of a persistence backend in a run
MaxOps == 4
\* largest max_files of a rotating backend
MaxFiles == 2
\* largest max_bytes of a rotating backend
MaxBytes == 2
\* largest timestamp of a record
MaxTs == 1
\* entries of a redis stream before the backend is used
MaxStream == 2
\* lines of an NDJSON file before the backend is used
MaxLines == 2
\* largest max_records of a retention policy
MaxRetention == 2

Rids == 1..MaxActors
CallIds == (MaxActors + 1)..(MaxActors + MaxCalls)
TaskIds == Rids \cup CallIds
NoTask == 0
TgCancelled == -1
NoRid == 0
NoName == "none"
SystemId == "local"

\* Python's None where a number is expected: the mailbox_capacity None of spawn
\* and Mailbox ("unbounded"), a limit or a retention policy that is not given
None == -1

VARIABLES
    sys_closed,     \* ActorSystem._closed
    by_id,          \* keys of ActorSystem._by_id (in spawn order: _actors)
    next_id,        \* ActorSystem._next_id
    rts,            \* rid -> _ActorRuntime record
    registry,       \* ActorSystem._registry: name -> rid of the address (NoRid: absent)
    mailbox,        \* rid -> state of the runtime's Mailbox (anyio memory stream)
    dead_letters,   \* DeadLetterMailbox._messages
    tasks,          \* task id -> coroutine state (actor loops and caller coroutines)
    cur,            \* the task that is running (NoTask: the event loop is free;
                    \* TgCancelled: a task has failed and the task group cancels the rest)
    now,            \* anyio.current_time()
    calls,          \* caller coroutines: the operation each one invokes, its outcome
    reply,          \* one-shot reply channel of each ask
    plan,           \* what the driver program does: actors to spawn, inputs allowed
    hist,           \* history of the run (observations for the properties)
    addr,           \* an ActorAddress, its string form and what parse makes of it
    store,          \* a file persistence backend: its fields, its lock, its files
    ops,            \* the coroutines that call the backend: operation, position, result
    redis,          \* a RedisStreamsPersistence, its streams and the call in progress
    startup         \* ActorSystem._tg, and the persistence startup the host configured

vars == <<sys_closed, by_id, next_id, rts, registry, mailbox, dead_letters, tasks,
          cur, now, calls, reply, plan, hist, addr, store, ops, redis, startup>>

\* the state of the actor system, and the state outside of it
System == <<sys_closed, by_id, next_id, rts, registry, mailbox, dead_letters, tasks,
            cur, now, calls, reply, plan, hist>>

Outside == <<addr, store, ops, redis, startup>>
NotAddress == <<System, store, ops, redis, startup>>
NotStore == <<System, addr, redis, startup>>
NotRedis == <<System, addr, store, ops, startup>>

\* --------------------------------------------------------------- address
\* Strings are sequences of characters. System ids are drawn from letters, the
\* separator and white space; actor ids are written in decimal.
Chars == {"a", ":", " "}
DigitChars == <<"0", "1", "2", "3", "4", "5", "6", "7", "8", "9">>

Strings(n) == UNION {[1..k -> Chars] : k \in 0..n}

NoAddress == [system |-> <<>>, actor_id |-> 0]
NoAddr == [a |-> NoAddress, raw |-> <<>>, parsed |-> [ok |-> FALSE, value |-> NoAddress],
           pc |-> "none"]

\* ActorAddress.__str__: f"{self.system}:{self.actor_id}"
Str(a) ==
    LET RECURSIVE Decimal(_)
        Decimal(n) == IF n < 10 THEN <<DigitChars[n + 1]>>
                      ELSE Decimal(n \div 10) \o <<DigitChars[(n % 10) + 1]>>
    IN  a.system \o <<":">> \o Decimal(a.actor_id)

ValueError == [ok |-> FALSE, value |-> NoAddress]

\* ActorAddress.parse(raw): split at the first ":", strip both parts, reject an
\* empty system id, read the actor id with int()
Parse(raw) ==
    LET Strip(s) == LET keep == {i \in 1..Len(s) : s[i] # " "}
                    IN  IF keep = {} THEN <<>>
                        ELSE SubSeq(s, CHOOSE i \in keep : \A j \in keep : i <= j,
                                       CHOOSE i \in keep : \A j \in keep : i >= j)
        IsDigit(ch) == \E d \in 1..10 : DigitChars[d] = ch
        Digit(ch) == (CHOOSE d \in 1..10 : DigitChars[d] = ch) - 1
        RECURSIVE ToInt(_)
        ToInt(s) == IF s = <<>> THEN 0
                  ELSE ToInt(SubSeq(s, 1, Len(s) - 1)) * 10 + Digit(s[Len(s)])
        colons == {i \in 1..Len(raw) : raw[i] = ":"}
    IN  IF colons = {} THEN ValueError
        ELSE LET k == CHOOSE i \in colons : \A j \in colons : i <= j
                 system == Strip(SubSeq(raw, 1, k - 1))
                 actor_id_str == Strip(SubSeq(raw, k + 1, Len(raw)))
             IN  IF system = <<>> THEN ValueError
                 ELSE IF actor_id_str = <<>>
                         \/ \E i \in 1..Len(actor_id_str) : ~IsDigit(actor_id_str[i])
                      THEN ValueError
                      ELSE [ok |-> TRUE,
                            value |-> [system |-> system, actor_id |-> ToInt(actor_id_str)]]

\* ------------------------------------------------- file persistence state
\* JsonFilePersistence and RotatingFilePersistence. A file is a sequence of
\* lines; a line written by the backend is the record it serializes, with its
\* length in bytes; ok is FALSE for a line that is not a JSON object.
OpIds == 1..MaxOps
NoOp == 0
Kinds == {"event", "audit", "dead_letter"}
NoFile == [exists |-> FALSE, data |-> <<>>]
Record(id, kind, ts, size) == [id |-> id, kind |-> kind, ts |-> ts, size |-> size, ok |-> TRUE]

NoStore == [kind |-> "json", max_bytes |-> 1, max_files |-> 1, retention |-> None,
            closed |-> FALSE, owner |-> NoOp, waiters |-> <<>>,
            files |-> [i \in 0..MaxFiles |-> NoFile], tmp |-> NoFile,
            menu |-> {}, sequential |-> TRUE, calls |-> MaxOps,
            locked |-> <<>>, sealed |-> [on |-> FALSE, files |-> <<>>]]

\* what a caller asks of the backend
OpSpec(op, kind, ts, size, limit) ==
    [op |-> op, kind |-> kind, ts |-> ts, size |-> size, limit |-> limit, since |-> None]

\* the call c with since=s
Since(c, s) == [c EXCEPT !.since = s]

NoOps == [p \in OpIds |-> [pc |-> "idle", arg |-> OpSpec("none", "event", 0, 0, None),
                           result |-> <<>>, seen |-> <<>>, late |-> FALSE]]

\* ----------------------------------------------------- startup state
\* ActorSystem._tg (tg: the task group exists) and what the host has set up
\* before start(): the startup mode, the recovery policy, and whether a scan of
\* the persistence backend reports anomalies. recovered lists the policies of
\* the recover calls that have completed; left bounds the calls of the host.
StartupModes == {"IGNORE", "FAIL_ON_ANOMALY", "RECOVER"}

Startup(mode, recovery, anomalies, tg) ==
    [mode |-> mode, recovery |-> recovery, anomalies |-> anomalies, tg |-> tg,
     recovered |-> <<>>, left |-> MaxOps]

\* a system that has been started, without persistence
Running == Startup("IGNORE", "IGNORE", FALSE, TRUE)

\* ----------------------------------------------------- stream-log state
\* RedisStreamsPersistence: one stream per kind of record. An entry has the id
\* redis gave it and a "data" field of one of three forms: a JSON object, a
\* string that is not a JSON object ("junk"), or no such field ("missing").
\* The text of a data field is identified with the id of its entry.
Keys == <<"event", "audit", "dead_letter">>
Forms == {"object", "junk", "missing"}
Entry(id, form) == [id |-> id, form |-> form]
Modes == {"IGNORE", "REPAIR", "QUARANTINE"}
RedisOp(op, kind, mode) == [op |-> op, kind |-> kind, mode |-> mode]

NoRedis == [streams |-> [k \in Kinds |-> <<>>], quarantine |-> [k \in Kinds |-> <<>>],
            metrics |-> [records_written |-> 0, bytes_written |-> 0, write_errors |-> 0],
            closed |-> FALSE, scan_sample_size |-> 1, next |-> 1,
            script |-> <<>>, pc |-> "idle", key |-> 1, bad |-> <<>>, todo |-> <<>>,
            seen |-> [k \in Kinds |-> {}], start |-> <<>>, log |-> <<>>]

\* ------------------------------------------------------------- envelopes
\* _envelope.Envelope(message, reply): m is the message, c the caller whose call
\* built it (its reply channel when r), w the actor an ActorTerminated names.
\* n and i are stamps for the properties: the n-th envelope the mailbox accepted,
\* under the i-th user instance.
Envelope(m, c, r, w) == [m |-> m, c |-> c, r |-> r, w |-> w, n |-> 0, i |-> 0]
NoEnv == Envelope("none", 0, FALSE, NoRid)
STOP == Envelope("STOP", 0, FALSE, NoRid)
ActorTerminated(rid) == Envelope("ActorTerminated", 0, FALSE, rid)

\* ---------------------------------------------------------------- frames
Frame(p, pc, rt) ==
    [p |-> p, pc |-> pc, rt |-> rt, todo |-> <<>>, env |-> NoEnv, exc |-> "none",
     d |-> "none", inst |-> 0, pending |-> "none"]

Top(t) == Head(tasks[t].stack)
At(t, p, pc) ==
    /\ cur \in {NoTask, t}
    /\ tasks[t].st = "ready"
    /\ tasks[t].stack # <<>>
    /\ Top(t).p = p
    /\ Top(t).pc = pc

\* the task's stack with its top frame replaced / a callee pushed / the top popped
WithTop(t, f) == <<f>> \o Tail(tasks[t].stack)
Call(t, f, callee) == <<callee, f>> \o Tail(tasks[t].stack)
Return(t) == Tail(tasks[t].stack)

SetToSeq(S) ==
    LET RECURSIVE Up(_, _)
        Up(T, n) == IF T = {} THEN <<>>
                    ELSE IF n \in T THEN <<n>> \o Up(T \ {n}, n + 1)
                    ELSE Up(T, n + 1)
    IN Up(S, 0)

\* --------------------------------------------------------- runtime state
Names == {"svc"}
Strategies == {"stop", "restart", "escalate"}
Decisions == {"restart", "stop", "escalate", "ignore"}

\* system._ActorRuntime: actor is the number of the current user instance (the
\* factory's n-th product), policy the SupervisionPolicy.
ActorRuntime(rid, parent, strategy, name, capacity) ==
    [rid |-> rid, actor |-> 1, capacity |-> capacity,
     policy |-> [strategy |-> strategy, max_restarts |-> MaxRestarts,
                 within_seconds |-> WithinSeconds],
     address |-> [system |-> SystemId, actor_id |-> rid],
     parent |-> parent, name |-> name, children |-> <<>>, watchers |-> {},
     alive |-> TRUE, stopping |-> FALSE, restarting |-> FALSE,
     restart_timestamps |-> <<>>]

NoRuntime == ActorRuntime(NoRid, NoRid, "stop", NoName, 1)


\* mailbox.Mailbox over anyio.create_memory_object_stream(capacity or 0): the
\* stream's buffer, the senders blocked in send() with their items, and the closed
\* flag of the send side.  The loop blocked in get() is tasks[rid].st = "get".
MaxBufferSize(capacity) == IF capacity \in {None, 0} THEN 0 ELSE capacity
Mailbox(capacity) ==
    [buffer |-> <<>>, senders |-> <<>>, closed |-> FALSE,
     max_buffer_size |-> MaxBufferSize(capacity)]

NoTaskState == [st |-> "none", stack |-> <<>>, ret |-> "none", seen |-> {}, item |-> NoEnv]

\* ref.ActorRef._is_alive as spawn, ref_for and _restart_actor build it
IsAlive(rid) == (~sys_closed) /\ rts[rid].alive /\ (~rts[rid].stopping)

\* ------------------------------------------------------------ the driver
\* What the program around the system does: the actors it spawns (in order), the
\* messages and operations its callers use, what the user hooks may do.
SpawnSpec(parent, strategy, name) == [parent |-> parent, strategy |-> strategy, name |-> name]

CallSpec(op, target, m, w, timeout) ==
    [op |-> op, target |-> target, m |-> m, w |-> w, timeout |-> timeout]

\* two root actors, the second one asked to watch the first, which is told to
\* stop itself
PlanWatch ==
    [spawns |-> <<SpawnSpec(NoRid, "stop", "svc"), SpawnSpec(NoRid, "stop", NoName)>>,
     menu |-> {CallSpec("tell", 2, "watch", 1, FALSE),
               CallSpec("tell", 1, "stop", NoRid, FALSE),
               CallSpec("tell", 1, "ok", NoRid, FALSE)},
     decisions |-> {"none"}, start_fail |-> FALSE, stop_yield |-> FALSE,
     factory_fail |-> FALSE, capacity |-> Capacity]

\* a parent and its child under every pair of policies, with failing messages
PlanSupervise(s1, s2) ==
    [spawns |-> <<SpawnSpec(NoRid, s1, "svc"), SpawnSpec(1, s2, NoName)>>,
     menu |-> {CallSpec("ask", 1, "boom", NoRid, FALSE),
               CallSpec("tell", 2, "boom", NoRid, FALSE)},
     decisions |-> {"none"}, start_fail |-> FALSE, stop_yield |-> TRUE,
     factory_fail |-> FALSE, capacity |-> Capacity]

\* a restarting actor with messages queued behind the one that fails
PlanMailbox ==
    [spawns |-> <<SpawnSpec(NoRid, "restart", "svc")>>,
     menu |-> {CallSpec("tell", 1, "boom", NoRid, FALSE),
               CallSpec("tell", 1, "ok", NoRid, FALSE)},
     decisions |-> {"none"}, start_fail |-> FALSE, stop_yield |-> FALSE,
     factory_fail |-> FALSE, capacity |-> Capacity]

\* a child whose parent's on_child_failure decides (or returns None)
PlanDecide(s2) ==
    [spawns |-> <<SpawnSpec(NoRid, "stop", NoName), SpawnSpec(1, s2, "svc")>>,
     menu |-> {CallSpec("ask", 2, "boom", NoRid, FALSE),
               CallSpec("tell", 2, "ok", NoRid, FALSE)},
     decisions |-> {"none"} \cup Decisions, start_fail |-> FALSE, stop_yield |-> FALSE,
     factory_fail |-> FALSE, capacity |-> Capacity]

\* actors whose on_start may raise
PlanStart(s2) ==
    [spawns |-> <<SpawnSpec(NoRid, "stop", NoName), SpawnSpec(1, s2, "svc")>>,
     menu |-> {CallSpec("tell", 2, "ok", NoRid, FALSE)},
     decisions |-> {"none"}, start_fail |-> TRUE, stop_yield |-> FALSE,
     factory_fail |-> FALSE, capacity |-> Capacity]

\* callers that give up, stop the actor from outside and close the system
PlanClose ==
    [spawns |-> <<SpawnSpec(NoRid, "stop", "svc"), SpawnSpec(1, "stop", NoName)>>,
     menu |-> {CallSpec("ask", 1, "ok", NoRid, TRUE),
               CallSpec("stop", 1, "none", NoRid, FALSE),
               CallSpec("aclose", NoRid, "none", NoRid, FALSE)},
     decisions |-> {"none"}, start_fail |-> FALSE, stop_yield |-> FALSE,
     factory_fail |-> FALSE, capacity |-> Capacity]

\* a restarting parent and an escalating child whose factory raises when it is
\* asked for a second instance
PlanFactory ==
    [spawns |-> <<SpawnSpec(NoRid, "restart", "svc"), SpawnSpec(1, "escalate", NoName)>>,
     menu |-> {CallSpec("tell", 1, "boom", NoRid, FALSE),
               CallSpec("tell", 2, "boom", NoRid, FALSE)},
     decisions |-> {"none"}, start_fail |-> FALSE, stop_yield |-> FALSE,
     factory_fail |-> TRUE, capacity |-> Capacity]

\* an actor with a mailbox of capacity 1 that is told to stop itself, and a
\* close of the system
PlanFull ==
    [spawns |-> <<SpawnSpec(NoRid, "stop", "svc")>>,
     menu |-> {CallSpec("tell", 1, "stop", NoRid, FALSE),
               CallSpec("tell", 1, "ok", NoRid, FALSE),
               CallSpec("ask", 1, "ok", NoRid, FALSE),
               CallSpec("aclose", NoRid, "none", NoRid, FALSE)},
     decisions |-> {"none"}, start_fail |-> FALSE, stop_yield |-> FALSE,
     factory_fail |-> FALSE, capacity |-> 1]

\* an actor spawned with mailbox_capacity=None
PlanUnbounded ==
    [spawns |-> <<SpawnSpec(NoRid, "stop", "svc")>>,
     menu |-> {CallSpec("tell", 1, "ok", NoRid, FALSE),
               CallSpec("ask", 1, "ok", NoRid, FALSE)},
     decisions |-> {"none"}, start_fail |-> FALSE, stop_yield |-> FALSE,
     factory_fail |-> FALSE, capacity |-> None]

\* a named actor, a second spawn under the same name, and lookups by address
\* (of this system, of another one, of an id no actor has) and by name
PlanRegistry ==
    [spawns |-> <<SpawnSpec(NoRid, "stop", "svc"), SpawnSpec(1, "stop", "svc")>>,
     menu |-> {CallSpec("stop", 1, "none", NoRid, FALSE),
               CallSpec("ref_for", 1, SystemId, NoRid, FALSE),
               CallSpec("ref_for", 1, "remote", NoRid, FALSE),
               CallSpec("ref_for", MaxActors, SystemId, NoRid, FALSE),
               CallSpec("ref_for_name", NoRid, "svc", NoRid, FALSE)},
     decisions |-> {"none"}, start_fail |-> FALSE, stop_yield |-> FALSE,
     factory_fail |-> FALSE, capacity |-> Capacity]

\* a restarting parent whose receive awaits, and an escalating child that fails
\* meanwhile
PlanSlow ==
    [spawns |-> <<SpawnSpec(NoRid, "restart", "svc"), SpawnSpec(1, "escalate", NoName)>>,
     menu |-> {CallSpec("tell", 1, "slow", NoRid, FALSE),
               CallSpec("tell", 2, "boom", NoRid, FALSE)},
     decisions |-> {"none"}, start_fail |-> FALSE, stop_yield |-> FALSE,
     factory_fail |-> FALSE, capacity |-> Capacity]

\* a restarting child whose on_stop awaits, and a stop of its parent from outside
PlanStop ==
    [spawns |-> <<SpawnSpec(NoRid, "stop", NoName), SpawnSpec(1, "restart", "svc")>>,
     menu |-> {CallSpec("tell", 2, "boom", NoRid, FALSE),
               CallSpec("stop", 1, "none", NoRid, FALSE),
               CallSpec("tell", 2, "ok", NoRid, FALSE)},
     decisions |-> {"none"}, start_fail |-> FALSE, stop_yield |-> TRUE,
     factory_fail |-> FALSE, capacity |-> Capacity]

\* a parent and its child whose on_start may fail and whose on_stop awaits, both
\* restarting, and the parent stopped from outside more than once
PlanStopAgain ==
    [spawns |-> <<SpawnSpec(NoRid, "restart", NoName), SpawnSpec(1, "restart", NoName)>>,
     menu |-> {CallSpec("stop", 1, "none", NoRid, FALSE)},
     decisions |-> {"none"}, start_fail |-> TRUE, stop_yield |-> TRUE,
     factory_fail |-> FALSE, capacity |-> Capacity]

Plans ==
    {PlanWatch, PlanClose, PlanMailbox, PlanFactory, PlanFull, PlanUnbounded,
     PlanRegistry, PlanSlow, PlanStop}
    \cup {PlanSupervise(s1, s2) : s1 \in Strategies, s2 \in Strategies}
    \cup {PlanDecide(s2) : s2 \in Strategies}
    \cup {PlanStart(s2) : s2 \in Strategies}

InitPlanned(P) ==
    /\ sys_closed = FALSE
    /\ by_id = <<>>
    /\ next_id = 1
    /\ rts = [r \in Rids |-> NoRuntime]
    /\ registry = [n \in Names |-> NoRid]
    /\ mailbox = [r \in Rids |-> Mailbox(Capacity)]
    /\ dead_letters = <<>>
    /\ tasks = [t \in TaskIds |-> NoTaskState]
    /\ cur = NoTask
    /\ now = 0
    /\ calls = [c \in CallIds |-> [op |-> "none", target |-> NoRid, m |-> "none",
                                   w |-> NoRid, timeout |-> FALSE, result |-> "none"]]
    /\ reply = [c \in CallIds |-> "none"]
    /\ plan \in P
    /\ hist = [on_start |-> [r \in Rids |-> <<>>],
               on_stop |-> [r \in Rids |-> <<>>],
               accepted |-> [r \in Rids |-> 0],
               taken |-> [r \in Rids |-> 0],
               fifo |-> [r \in Rids |-> TRUE],
               handled |-> [c \in CallIds |-> 0],
               failed |-> [r \in Rids |-> FALSE],
               start_failed |-> [r \in Rids |-> 0],
               due |-> [r \in Rids |-> 0],
               owed |-> [r \in Rids |-> {}],
               boom |-> [r \in Rids |-> [n |-> 0, inst |-> 0]],
               replies |-> [c \in CallIds |-> 0],
               notified |-> [r \in Rids |-> [w \in Rids |-> 0]],
               restarts |-> [r \in Rids |-> <<>>],
               spawn |-> <<>>,
               observed |-> 0,
               order |-> [r \in Rids |-> <<>>],
               live |-> [c \in CallIds |-> TRUE]]

\* a new system, driven by one of the plans
InitSystem == InitPlanned(Plans)

Init ==
    /\ InitSystem
    /\ startup = Running
    /\ addr = NoAddr
    /\ store = NoStore
    /\ ops = NoOps
    /\ redis = NoRedis

Spawned == {by_id[i] : i \in 1..Len(by_id)}

\* a spawn that takes the next actor id before it looks at the name
Spawn_IdBeforeNameCheck ==
    /\ cur = NoTask
    /\ plan.spawns # <<>>
    /\ ~sys_closed
    /\ next_id <= MaxActors
    /\ LET s == Head(plan.spawns)
           rid == next_id
           parent == IF s.parent \in Spawned THEN s.parent ELSE NoRid
           dup == s.name # NoName /\ registry[s.name] # NoRid
       IN  /\ plan' = [plan EXCEPT !.spawns = Tail(@)]
           /\ next_id' = next_id + 1
           /\ IF dup
              THEN /\ hist' = [hist EXCEPT !.spawn = Append(@, "ValueError")]
                   /\ UNCHANGED <<by_id, rts, registry, mailbox, tasks>>
              ELSE /\ by_id' = Append(by_id, rid)
                   /\ rts' = [r \in Rids |->
                                IF r = rid
                                THEN ActorRuntime(rid, parent, s.strategy, s.name, plan.capacity)
                                ELSE IF r = parent
                                THEN [rts[r] EXCEPT !.children = Append(@, rid)]
                                ELSE rts[r]]
                   /\ registry' = IF s.name = NoName THEN registry
                                  ELSE [registry EXCEPT ![s.name] = rid]
                   /\ mailbox' = [mailbox EXCEPT ![rid] = Mailbox(plan.capacity)]
                   /\ tasks' = [tasks EXCEPT ![rid] =
                                  [NoTaskState EXCEPT !.st = "ready",
                                       !.stack = <<Frame("run_actor", "start", rid)>>]]
                   /\ hist' = [hist EXCEPT !.on_start[rid] = <<0>>, !.on_stop[rid] = <<0>>,
                                           !.spawn = Append(@, "ok")]
    /\ UNCHANGED <<sys_closed, dead_letters, cur, now, calls, reply, Outside>>

\* ActorSystem.spawn: synchronous; the new loop is scheduled with start_soon.
\* Observation: the outcome of each spawn ("ok", or the exception it raised).
Spawn ==
    /\ cur = NoTask
    /\ plan.spawns # <<>>
    /\ ~sys_closed /\ startup.tg
    /\ next_id <= MaxActors
    /\ LET s == Head(plan.spawns)
           rid == next_id
           parent == IF s.parent \in Spawned THEN s.parent ELSE NoRid
           dup == s.name # NoName /\ registry[s.name] # NoRid
       IN  /\ plan' = [plan EXCEPT !.spawns = Tail(@)]
           /\ IF dup
              THEN /\ hist' = [hist EXCEPT !.spawn = Append(@, "ValueError")]
                   /\ UNCHANGED <<by_id, next_id, rts, registry, mailbox, tasks>>
              ELSE /\ next_id' = next_id + 1
                   /\ by_id' = Append(by_id, rid)
                   /\ rts' = [r \in Rids |->
                                IF r = rid
                                THEN ActorRuntime(rid, parent, s.strategy, s.name, plan.capacity)
                                ELSE IF r = parent
                                THEN [rts[r] EXCEPT !.children = Append(@, rid)]
                                ELSE rts[r]]
                   /\ registry' = IF s.name = NoName THEN registry
                                  ELSE [registry EXCEPT ![s.name] = rid]
                   /\ mailbox' = [mailbox EXCEPT ![rid] = Mailbox(plan.capacity)]
                   /\ tasks' = [tasks EXCEPT ![rid] =
                                  [NoTaskState EXCEPT !.st = "ready",
                                       !.stack = <<Frame("run_actor", "start", rid)>>]]
                   /\ hist' = [hist EXCEPT !.on_start[rid] = <<0>>, !.on_stop[rid] = <<0>>,
                                           !.spawn = Append(@, "ok")]
    /\ UNCHANGED <<sys_closed, dead_letters, cur, now, calls, reply, Outside>>

\* --------------------------------------------------------------- mailbox
\* An envelope has entered the mailbox of rid (its buffer, or the hands of the
\* loop waiting in get): the order of acceptance, and the ActorTerminated count.
Accept(h, rid, env) ==
    LET h1 == [h EXCEPT !.accepted[rid] = @ + 1]
    IN  IF env.m = "ActorTerminated"
        THEN [h1 EXCEPT !.notified[env.w][rid] = @ + 1]
        ELSE h1

Stamp(env, rid) == [env EXCEPT !.n = hist.accepted[rid] + 1, !.i = rts[rid].actor]

PutFrame(rid, env) == [Frame("put", "check", rid) EXCEPT !.env = env]

\* Mailbox.put, up to the checkpoint that opens anyio's send()
Put_check(t) ==
    /\ At(t, "put", "check")
    /\ IF mailbox[Top(t).rt].closed
       THEN /\ tasks' = [tasks EXCEPT ![t].stack = Return(t), ![t].ret = "MailboxClosed"]
            /\ cur' = t
       ELSE /\ tasks' = [tasks EXCEPT ![t].stack = WithTop(t, [Top(t) EXCEPT !.pc = "send"])]
            /\ cur' = NoTask
    /\ UNCHANGED <<sys_closed, by_id, next_id, rts, registry, mailbox, dead_letters,
                   now, calls, reply, plan, Outside, hist>>

\* anyio MemoryObjectSendStream.send after its checkpoint: send_nowait, else wait
Put_send(t) ==
    /\ At(t, "put", "send")
    /\ LET rid == Top(t).rt
           env == Top(t).env
           mb == mailbox[rid]
       IN  IF mb.closed
           THEN /\ tasks' = [tasks EXCEPT ![t].stack = Return(t), ![t].ret = "MailboxClosed"]
                /\ cur' = t
                /\ UNCHANGED <<mailbox, hist>>
           ELSE IF tasks[rid].st = "get"
           THEN /\ tasks' = [tasks EXCEPT ![t].stack = Return(t), ![t].ret = "ok",
                                          ![rid].st = "ready", ![rid].item = Stamp(env, rid)]
                /\ cur' = t
                /\ hist' = Accept(hist, rid, env)
                /\ UNCHANGED mailbox
           ELSE IF Len(mb.buffer) < mb.max_buffer_size
           THEN /\ tasks' = [tasks EXCEPT ![t].stack = Return(t), ![t].ret = "ok"]
                /\ cur' = t
                /\ mailbox' = [mailbox EXCEPT ![rid].buffer = Append(@, Stamp(env, rid))]
                /\ hist' = Accept(hist, rid, env)
           ELSE /\ tasks' = [tasks EXCEPT ![t].st = "put",
                                 ![t].stack = WithTop(t, [Top(t) EXCEPT !.pc = "sent"])]
                /\ cur' = NoTask
                /\ mailbox' = [mailbox EXCEPT ![rid].senders = Append(@, [t |-> t, env |-> env])]
                /\ UNCHANGED hist
    /\ UNCHANGED <<sys_closed, by_id, next_id, rts, registry, dead_letters,
                   now, calls, reply, plan, Outside>>

\* a sender that was blocked in send() resumes: the loop has taken its envelope
Put_sent(t) ==
    /\ At(t, "put", "sent")
    /\ tasks' = [tasks EXCEPT ![t].stack = Return(t), ![t].ret = "ok"]
    /\ cur' = t
    /\ UNCHANGED <<sys_closed, by_id, next_id, rts, registry, mailbox, dead_letters,
                   now, calls, reply, plan, Outside, hist>>

\* Mailbox.aclose: closes the send side, which wakes a loop blocked in get()
\* (EndOfStream); envelopes in the buffer stay.  Gives <<mailbox, tasks>>.
MailboxClose(mbs, tks, rid) ==
    IF mbs[rid].closed THEN <<mbs, tks>>
    ELSE << [mbs EXCEPT ![rid].closed = TRUE],
            IF tks[rid].st = "get"
            THEN [tks EXCEPT ![rid].st = "ready", ![rid].item = NoEnv]
            ELSE tks >>

\* ------------------------------------------------------------ actor loop
Rest == <<sys_closed, by_id, next_id, dead_letters, now, plan, Outside>>

\* spawn's `self._tg.start_soon(self._run_actor, rt)`: the driver spawns its
\* actors without awaiting in between, and the event loop then runs the first
\* step of the loops in the order they were scheduled
FirstScheduled(t) ==
    /\ plan.spawns = <<>>
    /\ \A r \in Spawned :
          r < t => ~(tasks[r].stack # <<>> /\ Top(r).p = "run_actor" /\ Top(r).pc = "start")

\* _run_actor: `if not await self._safe_on_start(rt)`
RunActor_start(t) ==
    /\ At(t, "run_actor", "start")
    /\ FirstScheduled(t)
    /\ tasks' = [tasks EXCEPT ![t].stack =
                    Call(t, [Top(t) EXCEPT !.pc = "started"],
                         Frame("safe_on_start", "call", Top(t).rt))]
    /\ cur' = t
    /\ UNCHANGED <<Rest, rts, registry, mailbox, calls, reply, hist>>

RunActor_started(t) ==
    /\ At(t, "run_actor", "started")
    /\ IF tasks[t].ret = "false"
       THEN /\ rts' = [rts EXCEPT ![Top(t).rt].alive = FALSE]
            /\ tasks' = [tasks EXCEPT ![t].stack = WithTop(t, [Top(t) EXCEPT !.pc = "finally"])]
       ELSE /\ rts' = rts
            /\ tasks' = [tasks EXCEPT ![t].stack = WithTop(t, [Top(t) EXCEPT !.pc = "loop"])]
    /\ cur' = t
    /\ UNCHANGED <<Rest, registry, mailbox, calls, reply, hist>>

\* `while not self._closed and rt.alive`, then the checkpoint that opens get()
RunActor_loop(t) ==
    /\ At(t, "run_actor", "loop")
    /\ IF sys_closed \/ ~rts[Top(t).rt].alive
       THEN /\ tasks' = [tasks EXCEPT ![t].stack = WithTop(t, [Top(t) EXCEPT !.pc = "finally"])]
            /\ cur' = t
       ELSE /\ tasks' = [tasks EXCEPT ![t].stack = WithTop(t, [Top(t) EXCEPT !.pc = "get"])]
            /\ cur' = NoTask
    /\ UNCHANGED <<Rest, rts, registry, mailbox, calls, reply, hist>>

\* a get that returns the newest envelope of the buffer
RunActor_get_NewestFirst(t) ==
    /\ At(t, "run_actor", "get")
    /\ LET rid == Top(t).rt
           mb == mailbox[rid]
           moved == IF mb.senders = <<>> THEN mb.buffer
                    ELSE Append(mb.buffer, Stamp(Head(mb.senders).env, rid))
       IN  IF moved # <<>>
           THEN /\ mailbox' = [mailbox EXCEPT ![rid].buffer = SubSeq(moved, 1, Len(moved) - 1),
                                   ![rid].senders = IF @ = <<>> THEN @ ELSE Tail(@)]
                /\ tasks' = [x \in TaskIds |->
                               IF x = t
                               THEN [tasks[t] EXCEPT !.stack =
                                       WithTop(t, [Top(t) EXCEPT !.pc = "env", !.env = moved[Len(moved)]])]
                               ELSE IF mb.senders # <<>> /\ x = Head(mb.senders).t
                               THEN [tasks[x] EXCEPT !.st = "ready"]
                               ELSE tasks[x]]
                /\ hist' = IF mb.senders = <<>> THEN hist
                           ELSE Accept(hist, rid, Head(mb.senders).env)
                /\ cur' = t
           ELSE IF mb.closed
           THEN /\ tasks' = [tasks EXCEPT ![t].stack =
                                WithTop(t, [Top(t) EXCEPT !.pc = "finally"])]
                /\ cur' = t
                /\ UNCHANGED <<mailbox, hist>>
           ELSE /\ tasks' = [tasks EXCEPT ![t].st = "get", ![t].item = NoEnv,
                                 ![t].stack = WithTop(t, [Top(t) EXCEPT !.pc = "got"])]
                /\ cur' = NoTask
                /\ UNCHANGED <<mailbox, hist>>
    /\ UNCHANGED <<Rest, rts, registry, calls, reply>>

\* Mailbox.get after its checkpoint: anyio receive_nowait (the first blocked
\* sender's envelope moves to the buffer's end, the buffer's head is returned),
\* EndOfStream when empty and closed, else the loop blocks.
RunActor_get(t) ==
    /\ At(t, "run_actor", "get")
    /\ LET rid == Top(t).rt
           mb == mailbox[rid]
           moved == IF mb.senders = <<>> THEN mb.buffer
                    ELSE Append(mb.buffer, Stamp(Head(mb.senders).env, rid))
       IN  IF moved # <<>>
           THEN /\ mailbox' = [mailbox EXCEPT ![rid].buffer = Tail(moved),
                                   ![rid].senders = IF @ = <<>> THEN @ ELSE Tail(@)]
                /\ tasks' = [x \in TaskIds |->
                               IF x = t
                               THEN [tasks[t] EXCEPT !.stack =
                                       WithTop(t, [Top(t) EXCEPT !.pc = "env", !.env = Head(moved)])]
                               ELSE IF mb.senders # <<>> /\ x = Head(mb.senders).t
                               THEN [tasks[x] EXCEPT !.st = "ready"]
                               ELSE tasks[x]]
                /\ hist' = IF mb.senders = <<>> THEN hist
                           ELSE Accept(hist, rid, Head(mb.senders).env)
                /\ cur' = t
           ELSE IF mb.closed
           THEN /\ tasks' = [tasks EXCEPT ![t].stack =
                                WithTop(t, [Top(t) EXCEPT !.pc = "finally"])]
                /\ cur' = t
                /\ UNCHANGED <<mailbox, hist>>
           ELSE /\ tasks' = [tasks EXCEPT ![t].st = "get", ![t].item = NoEnv,
                                 ![t].stack = WithTop(t, [Top(t) EXCEPT !.pc = "got"])]
                /\ cur' = NoTask
                /\ UNCHANGED <<mailbox, hist>>
    /\ UNCHANGED <<Rest, rts, registry, calls, reply>>

\* the loop resumes from a blocked get(): with the envelope a sender handed over,
\* or with EndOfStream because the mailbox was closed
RunActor_got(t) ==
    /\ At(t, "run_actor", "got")
    /\ IF tasks[t].item # NoEnv
       THEN tasks' = [tasks EXCEPT ![t].item = NoEnv, ![t].stack =
                        WithTop(t, [Top(t) EXCEPT !.pc = "env", !.env = tasks[t].item])]
       ELSE tasks' = [tasks EXCEPT ![t].stack = WithTop(t, [Top(t) EXCEPT !.pc = "finally"])]
    /\ cur' = t
    /\ UNCHANGED <<Rest, rts, registry, mailbox, calls, reply, hist>>

\* `if env.message is STOP: break`, else receive is invoked on rt.actor.
\* Observation: the calls of the driver whose messages receive got, in order.
RunActor_env(t) ==
    /\ At(t, "run_actor", "env")
    /\ LET rid == Top(t).rt
           env == Top(t).env
           h1 == [hist EXCEPT !.taken[rid] = @ + 1,
                              !.fifo[rid] = @ /\ env.n = hist.taken[rid] + 1]
       IN  IF env.m = "STOP"
           THEN /\ tasks' = [tasks EXCEPT ![t].stack =
                                WithTop(t, [Top(t) EXCEPT !.pc = "finally"])]
                /\ hist' = h1
           ELSE /\ tasks' = [tasks EXCEPT ![t].stack =
                                WithTop(t, [Top(t) EXCEPT !.pc = "receive",
                                                          !.inst = rts[rid].actor])]
                /\ hist' = LET h2 == IF env.c = 0 THEN h1
                                     ELSE [h1 EXCEPT !.order[rid] = Append(@, env.c)]
                           IN  IF env.r THEN [h2 EXCEPT !.handled[env.c] = rts[rid].actor]
                               ELSE h2
    /\ cur' = t
    /\ UNCHANGED <<Rest, rts, registry, mailbox, calls, reply>>

Goto(t, pc) == [tasks EXCEPT ![t].stack = WithTop(t, [Top(t) EXCEPT !.pc = pc])]

\* ---- what the user's receive does with a message (the actors of the tests)
\* a message receive answers with a value; an ActorTerminated notice likewise
Receive_ok(t) ==
    /\ At(t, "run_actor", "receive")
    /\ Top(t).env.m \in {"ok", "ActorTerminated"}
    /\ tasks' = Goto(t, "reply")
    /\ cur' = t
    /\ UNCHANGED <<Rest, rts, registry, mailbox, calls, reply, hist>>

\* "boom": receive raises.  Observation: the envelope and the instance that failed.
Receive_boom(t) ==
    /\ At(t, "run_actor", "receive")
    /\ Top(t).env.m = "boom"
    /\ tasks' = [tasks EXCEPT ![t].stack =
                    WithTop(t, [Top(t) EXCEPT !.pc = "except", !.exc = "RuntimeError"])]
    /\ hist' = [hist EXCEPT !.boom[Top(t).rt] = [n |-> Top(t).env.n, inst |-> Top(t).inst]]
    /\ cur' = t
    /\ UNCHANGED <<Rest, rts, registry, mailbox, calls, reply>>

\* "stop": receive awaits context.stop_self(), then returns
Receive_stop_self(t) ==
    /\ At(t, "run_actor", "receive")
    /\ Top(t).env.m = "stop"
    /\ tasks' = [tasks EXCEPT ![t].stack =
                    Call(t, [Top(t) EXCEPT !.pc = "reply"], Frame("stop", "call", Top(t).rt))]
    /\ cur' = t
    /\ UNCHANGED <<Rest, rts, registry, mailbox, calls, reply, hist>>

\* "slow": receive awaits (a checkpoint in user code), then returns
Receive_await(t) ==
    /\ At(t, "run_actor", "receive")
    /\ Top(t).env.m = "slow"
    /\ tasks' = Goto(t, "resume")
    /\ cur' = NoTask
    /\ UNCHANGED <<Rest, rts, registry, mailbox, calls, reply, hist>>

Receive_resume(t) ==
    /\ At(t, "run_actor", "resume")
    /\ tasks' = Goto(t, "reply")
    /\ cur' = t
    /\ UNCHANGED <<Rest, rts, registry, mailbox, calls, reply, hist>>

\* ActorSystem._add_watch
AddWatch(watcher, target) ==
    IF watcher \in Spawned /\ target \in Spawned
    THEN [rts EXCEPT ![target].watchers = @ \cup {watcher}]
    ELSE rts

\* ("watch", target): receive awaits context.watch(target), then returns
Receive_watch(t) ==
    /\ At(t, "run_actor", "receive")
    /\ Top(t).env.m = "watch"
    /\ rts' = AddWatch(Top(t).rt, Top(t).env.w)
    /\ tasks' = Goto(t, "reply")
    /\ cur' = t
    /\ UNCHANGED <<Rest, registry, mailbox, calls, reply, hist>>

\* ---- _run_actor after receive
\* `if env.reply is not None: await env.reply.send(Reply(value=result))`: the
\* checkpoint that opens send()
RunActor_reply(t) ==
    /\ At(t, "run_actor", "reply")
    /\ IF Top(t).env.r
       THEN /\ tasks' = Goto(t, "reply_send")
            /\ cur' = NoTask
       ELSE /\ tasks' = Goto(t, "after")
            /\ cur' = t
    /\ UNCHANGED <<Rest, rts, registry, mailbox, calls, reply, hist>>

\* a Reply enters the one-shot channel of caller c and wakes the caller
Deliver(tks, c) == IF tks[c].st = "reply" THEN [tks EXCEPT ![c].st = "ready"] ELSE tks

\* send_nowait on the reply channel: it raises when the caller has closed the
\* channel, and the raise lands in `except BaseException` of the loop
RunActor_reply_send(t) ==
    /\ At(t, "run_actor", "reply_send")
    /\ LET c == Top(t).env.c
       IN  IF reply[c] = "closed"
           THEN /\ tasks' = [tasks EXCEPT ![t].stack =
                                WithTop(t, [Top(t) EXCEPT !.pc = "except",
                                                          !.exc = "ClosedResourceError"])]
                /\ reply' = reply
                /\ hist' = hist
           ELSE /\ tasks' = Deliver(Goto(t, "after"), c)
                /\ reply' = [reply EXCEPT ![c] = "value"]
                /\ hist' = [hist EXCEPT !.replies[c] = @ + 1]
    /\ cur' = t
    /\ UNCHANGED <<Rest, rts, registry, mailbox, calls>>

\* a loop that answers the caller without going through supervision first
RunActor_except_NoSupervision(t) ==
    /\ At(t, "run_actor", "except")
    /\ tasks' = Goto(t, "except_reply")
    /\ cur' = t
    /\ UNCHANGED <<Rest, rts, registry, mailbox, calls, reply, hist>>

\* `except BaseException as e: await self._handle_failure(rt, e)`
RunActor_except(t) ==
    /\ At(t, "run_actor", "except")
    /\ tasks' = [tasks EXCEPT ![t].stack =
                    Call(t, [Top(t) EXCEPT !.pc = "except_reply"],
                         [Frame("handle_failure", "call", Top(t).rt) EXCEPT !.exc = Top(t).exc])]
    /\ cur' = t
    /\ UNCHANGED <<Rest, rts, registry, mailbox, calls, reply, hist>>

\* after supervision: `if env.reply is not None: await env.reply.send(Reply(error=e))`
RunActor_except_reply(t) ==
    /\ At(t, "run_actor", "except_reply")
    /\ IF Top(t).env.r
       THEN /\ tasks' = Goto(t, "error_send")
            /\ cur' = NoTask
       ELSE /\ tasks' = Goto(t, "after")
            /\ cur' = t
    /\ UNCHANGED <<Rest, rts, registry, mailbox, calls, reply, hist>>

\* the error Reply is sent; `except Exception: pass` when the channel is closed
RunActor_error_send(t) ==
    /\ At(t, "run_actor", "error_send")
    /\ LET c == Top(t).env.c
       IN  IF reply[c] = "closed"
           THEN /\ tasks' = Goto(t, "after")
                /\ reply' = reply
                /\ hist' = hist
           ELSE /\ tasks' = Deliver(Goto(t, "after"), c)
                /\ reply' = [reply EXCEPT ![c] = Top(t).exc]
                /\ hist' = [hist EXCEPT !.replies[c] = @ + 1]
    /\ cur' = t
    /\ UNCHANGED <<Rest, rts, registry, mailbox, calls>>

\* `if rt.stopping: break`
RunActor_after(t) ==
    /\ At(t, "run_actor", "after")
    /\ tasks' = Goto(t, IF rts[Top(t).rt].stopping THEN "finally" ELSE "loop")
    /\ cur' = t
    /\ UNCHANGED <<Rest, rts, registry, mailbox, calls, reply, hist>>

\* finally: alive = False, the name leaves the registry on a permanent stop.
\* Observation: the watchers that are alive when the loop terminates.
RunActor_finally(t) ==
    /\ At(t, "run_actor", "finally")
    /\ LET rid == Top(t).rt
           rt == rts[rid]
       IN  /\ rts' = [rts EXCEPT ![rid].alive = FALSE]
           /\ registry' = IF rt.name # NoName /\ rt.stopping /\ ~rt.restarting
                          THEN [registry EXCEPT ![rt.name] = NoRid]
                          ELSE registry
           /\ tasks' = [tasks EXCEPT ![t].stack =
                           WithTop(t, [Top(t) EXCEPT !.pc = "notify",
                                                     !.todo = SetToSeq(rt.watchers)])]
           /\ hist' = [hist EXCEPT !.owed[rid] =
                           {w \in rt.watchers : w \in Spawned /\ rts[w].alive}]
    /\ cur' = t
    /\ UNCHANGED <<Rest, mailbox, calls, reply>>

\* finally: `for watcher_rid in list(rt.watchers)`: put ActorTerminated(self_ref)
RunActor_notify(t) ==
    /\ At(t, "run_actor", "notify")
    /\ LET f == Top(t)
       IN  IF f.todo = <<>>
           THEN tasks' = Goto(t, "on_stop")
           ELSE IF Head(f.todo) \notin Spawned \/ ~rts[Head(f.todo)].alive
           THEN tasks' = [tasks EXCEPT ![t].stack = WithTop(t, [f EXCEPT !.todo = Tail(@)])]
           ELSE tasks' = [tasks EXCEPT ![t].stack =
                            Call(t, [f EXCEPT !.todo = Tail(@)],
                                 PutFrame(Head(f.todo), ActorTerminated(f.rt)))]
    /\ cur' = t
    /\ UNCHANGED <<Rest, rts, registry, mailbox, calls, reply, hist>>

\* finally: `await self._safe_on_stop(rt)`
RunActor_on_stop(t) ==
    /\ At(t, "run_actor", "on_stop")
    /\ tasks' = [tasks EXCEPT ![t].stack =
                    Call(t, [Top(t) EXCEPT !.pc = "aclose"],
                         Frame("safe_on_stop", "call", Top(t).rt))]
    /\ cur' = t
    /\ UNCHANGED <<Rest, rts, registry, mailbox, calls, reply, hist>>

\* finally: `await rt.mailbox.aclose()`; the loop's task ends.  An exception
\* that no handler of _run_actor caught is raised again after the finally block:
\* the task fails, and its task group cancels the system's other tasks.
RunActor_aclose(t) ==
    /\ At(t, "run_actor", "aclose")
    /\ LET closed == MailboxClose(mailbox, tasks, Top(t).rt)
       IN  /\ mailbox' = closed[1]
           /\ IF Top(t).pending = "none"
              THEN /\ tasks' = [closed[2] EXCEPT ![t].st = "done", ![t].stack = <<>>]
                   /\ cur' = NoTask
              ELSE /\ tasks' = [closed[2] EXCEPT ![t].st = "failed", ![t].stack = <<>>,
                                                 ![t].ret = Top(t).pending]
                   /\ cur' = TgCancelled
    /\ UNCHANGED <<Rest, rts, registry, calls, reply, hist>>

\* ----------------------------------------------------------- user hooks
Bump(counts, i) == [counts EXCEPT ![i] = @ + 1]

\* _safe_on_start: on_start of the current instance returns
SafeOnStart_ok(t) ==
    /\ At(t, "safe_on_start", "call")
    /\ hist' = [hist EXCEPT !.on_start[Top(t).rt] = Bump(@, rts[Top(t).rt].actor)]
    /\ tasks' = [tasks EXCEPT ![t].stack = Return(t), ![t].ret = "true"]
    /\ cur' = t
    /\ UNCHANGED <<Rest, rts, registry, mailbox, calls, reply>>

\* _safe_on_start: on_start raises, the failure goes to supervision
SafeOnStart_raise(t) ==
    /\ At(t, "safe_on_start", "call")
    /\ plan.start_fail
    /\ hist' = [hist EXCEPT !.on_start[Top(t).rt] = Bump(@, rts[Top(t).rt].actor),
                            !.start_failed[Top(t).rt] = rts[Top(t).rt].actor]
    /\ tasks' = [tasks EXCEPT ![t].stack =
                    Call(t, [Top(t) EXCEPT !.pc = "failed"],
                         [Frame("handle_failure", "call", Top(t).rt) EXCEPT !.exc = "RuntimeError"])]
    /\ cur' = t
    /\ UNCHANGED <<Rest, rts, registry, mailbox, calls, reply>>

\* _safe_on_start: `return rt.alive`
SafeOnStart_failed(t) ==
    /\ At(t, "safe_on_start", "failed")
    /\ tasks' = [tasks EXCEPT ![t].stack = Return(t),
                    ![t].ret = IF rts[Top(t).rt].alive THEN "true" ELSE "false"]
    /\ cur' = t
    /\ UNCHANGED <<Rest, rts, registry, mailbox, calls, reply, hist>>

\* _safe_on_stop: on_stop of the current instance returns (or raises: swallowed)
SafeOnStop_return(t) ==
    /\ At(t, "safe_on_stop", "call")
    /\ hist' = [hist EXCEPT !.on_stop[Top(t).rt] = Bump(@, rts[Top(t).rt].actor)]
    /\ tasks' = [tasks EXCEPT ![t].stack = Return(t), ![t].ret = "none"]
    /\ cur' = t
    /\ UNCHANGED <<Rest, rts, registry, mailbox, calls, reply>>

\* _safe_on_stop: the user's on_stop awaits, which suspends the calling task
SafeOnStop_await(t) ==
    /\ At(t, "safe_on_stop", "call")
    /\ plan.stop_yield
    /\ hist' = [hist EXCEPT !.on_stop[Top(t).rt] = Bump(@, rts[Top(t).rt].actor)]
    /\ tasks' = Goto(t, "resumed")
    /\ cur' = NoTask
    /\ UNCHANGED <<Rest, rts, registry, mailbox, calls, reply>>

SafeOnStop_resumed(t) ==
    /\ At(t, "safe_on_stop", "resumed")
    /\ tasks' = [tasks EXCEPT ![t].stack = Return(t), ![t].ret = "none"]
    /\ cur' = t
    /\ UNCHANGED <<Rest, rts, registry, mailbox, calls, reply, hist>>

\* ----------------------------------------------------------- supervision
\* a call of _stop_runtime(rt) with _seen=None: a fresh visited set
EnterStopRuntime(t, stack) ==
    [tasks EXCEPT ![t].stack = stack, ![t].seen = {}]

StopRuntimeFrame(rid) == Frame("stop_runtime", "enter", rid)

\* observation: _handle_failure has been entered for rid
Failed(rid) == [hist EXCEPT !.failed[rid] = TRUE]

\* _handle_failure: `if rt.stopping: rt.alive = False; return`
HandleFailure_stopping(t) ==
    /\ At(t, "handle_failure", "call")
    /\ rts[Top(t).rt].stopping
    /\ rts' = [rts EXCEPT ![Top(t).rt].alive = FALSE]
    /\ tasks' = [tasks EXCEPT ![t].stack = Return(t), ![t].ret = "none"]
    /\ hist' = Failed(Top(t).rt)
    /\ cur' = t
    /\ UNCHANGED <<Rest, registry, mailbox, calls, reply>>

\* _handle_failure: the parent's on_child_failure returns a SupervisorDecision
HandleFailure_supervisor(t) ==
    /\ At(t, "handle_failure", "call")
    /\ ~rts[Top(t).rt].stopping
    /\ rts[Top(t).rt].parent # NoRid
    /\ \E d \in plan.decisions \cap Decisions :
          tasks' = [tasks EXCEPT ![t].stack =
                      WithTop(t, [Top(t) EXCEPT !.p = "apply_supervisor_decision", !.d = d])]
    /\ hist' = Failed(Top(t).rt)
    /\ cur' = t
    /\ UNCHANGED <<Rest, rts, registry, mailbox, calls, reply>>

\* _handle_failure: no parent, or the hook returns None or raises: rt.policy.strategy
HandleFailure_policy(t) ==
    /\ At(t, "handle_failure", "call")
    /\ LET rid == Top(t).rt
           rt == rts[rid]
       IN  /\ ~rt.stopping
           /\ rt.parent = NoRid \/ "none" \in plan.decisions
           /\ IF rt.policy.strategy = "escalate"
              THEN IF rt.parent = NoRid
                   THEN /\ rts' = [rts EXCEPT ![rid].alive = FALSE]
                        /\ tasks' = [tasks EXCEPT ![t].stack = Return(t), ![t].ret = "none"]
                   ELSE /\ rts' = rts
                        /\ tasks' = [tasks EXCEPT ![t].stack =
                                        Call(t, [Top(t) EXCEPT !.pc = "escalated"],
                                             [Frame("handle_failure", "call", rt.parent)
                                                 EXCEPT !.exc = Top(t).exc])]
              ELSE IF rt.policy.strategy = "stop"
              THEN /\ rts' = rts
                   /\ tasks' = EnterStopRuntime(t, WithTop(t, StopRuntimeFrame(rid)))
              ELSE /\ rts' = rts
                   /\ tasks' = [tasks EXCEPT ![t].stack =
                                   WithTop(t, Frame("restart_actor", "call", rid))]
    /\ hist' = Failed(Top(t).rt)
    /\ cur' = t
    /\ UNCHANGED <<Rest, registry, mailbox, calls, reply>>

\* _handle_failure, policy ESCALATE: after the parent's supervision, `rt.alive = False`
HandleFailure_escalated(t) ==
    /\ At(t, "handle_failure", "escalated")
    /\ rts' = [rts EXCEPT ![Top(t).rt].alive = FALSE]
    /\ tasks' = [tasks EXCEPT ![t].stack = Return(t), ![t].ret = "none"]
    /\ cur' = t
    /\ UNCHANGED <<Rest, registry, mailbox, calls, reply, hist>>

\* a supervisor whose IGNORE leaves the failed child as it is
ApplySupervisorDecision_IgnoreKeeps(t) ==
    /\ At(t, "apply_supervisor_decision", "call")
    /\ LET rid == Top(t).rt
           d == Top(t).d
       IN  IF d = "ignore"
           THEN tasks' = [tasks EXCEPT ![t].stack = Return(t), ![t].ret = "none"]
           ELSE IF d = "stop" \/ (d = "escalate" /\ rts[rid].parent = NoRid)
           THEN tasks' = EnterStopRuntime(t, WithTop(t, StopRuntimeFrame(rid)))
           ELSE IF d = "restart"
           THEN tasks' = [tasks EXCEPT ![t].stack =
                            WithTop(t, Frame("restart_actor", "call", rid))]
           ELSE tasks' = [tasks EXCEPT ![t].stack =
                            Call(t, [Top(t) EXCEPT !.pc = "escalated"],
                                 [Frame("handle_failure", "call", rts[rid].parent)
                                     EXCEPT !.exc = Top(t).exc])]
    /\ cur' = t
    /\ UNCHANGED <<Rest, rts, registry, mailbox, calls, reply, hist>>

\* _apply_supervisor_decision
ApplySupervisorDecision(t) ==
    /\ At(t, "apply_supervisor_decision", "call")
    /\ LET rid == Top(t).rt
           d == Top(t).d
       IN  IF d \in {"ignore", "stop"} \/ (d = "escalate" /\ rts[rid].parent = NoRid)
           THEN tasks' = EnterStopRuntime(t, WithTop(t, StopRuntimeFrame(rid)))
           ELSE IF d = "restart"
           THEN tasks' = [tasks EXCEPT ![t].stack =
                            WithTop(t, Frame("restart_actor", "call", rid))]
           ELSE tasks' = [tasks EXCEPT ![t].stack =
                            Call(t, [Top(t) EXCEPT !.pc = "escalated"],
                                 [Frame("handle_failure", "call", rts[rid].parent)
                                     EXCEPT !.exc = Top(t).exc])]
    /\ cur' = t
    /\ UNCHANGED <<Rest, rts, registry, mailbox, calls, reply, hist>>

\* _apply_supervisor_decision, ESCALATE: after the parent's supervision the
\* child is cascade-stopped
ApplySupervisorDecision_escalated(t) ==
    /\ At(t, "apply_supervisor_decision", "escalated")
    /\ tasks' = EnterStopRuntime(t, WithTop(t, StopRuntimeFrame(Top(t).rt)))
    /\ cur' = t
    /\ UNCHANGED <<Rest, rts, registry, mailbox, calls, reply, hist>>

\* --------------------------------------------------------- cascading stop
\* observation: what _stop_runtime(rid) found when it was invoked
FoundStopped(rid) == IF ~rts[rid].alive \/ rts[rid].stopping THEN "stopped" ELSE "none"

\* _stop_runtime: the visited set, then the snapshot `list(rt.children)`
StopRuntime_enter(t) ==
    /\ At(t, "stop_runtime", "enter")
    /\ IF Top(t).rt \in tasks[t].seen
       THEN tasks' = [tasks EXCEPT ![t].stack = Return(t), ![t].ret = "none"]
       ELSE tasks' = [tasks EXCEPT ![t].seen = @ \cup {Top(t).rt},
                         ![t].stack = WithTop(t, [Top(t) EXCEPT !.pc = "children",
                                                      !.todo = rts[Top(t).rt].children,
                                                      !.d = FoundStopped(Top(t).rt)])]
    /\ cur' = t
    /\ UNCHANGED <<Rest, rts, registry, mailbox, calls, reply, hist>>

\* _stop_runtime: `for child in list(rt.children): await self._stop_runtime(child)`
StopRuntime_children(t) ==
    /\ At(t, "stop_runtime", "children")
    /\ IF Top(t).todo = <<>>
       THEN tasks' = Goto(t, "self")
       ELSE tasks' = [tasks EXCEPT ![t].stack =
                        Call(t, [Top(t) EXCEPT !.todo = Tail(@)],
                             StopRuntimeFrame(Head(Top(t).todo)))]
    /\ cur' = t
    /\ UNCHANGED <<Rest, rts, registry, mailbox, calls, reply, hist>>

\* _stop_runtime: `if not rt.alive or rt.stopping: return`, else `rt.stopping = True`
StopRuntime_self(t) ==
    /\ At(t, "stop_runtime", "self")
    /\ LET rid == Top(t).rt
       IN  IF ~rts[rid].alive \/ rts[rid].stopping
           THEN /\ tasks' = [tasks EXCEPT ![t].stack = Return(t), ![t].ret = "none"]
                /\ rts' = rts
           ELSE /\ tasks' = [tasks EXCEPT ![t].stack =
                                WithTop(t, [Top(t) EXCEPT !.pc = "watchers",
                                                !.todo = SetToSeq(rts[rid].watchers)])]
                /\ rts' = [rts EXCEPT ![rid].stopping = TRUE]
    /\ cur' = t
    /\ UNCHANGED <<Rest, registry, mailbox, calls, reply, hist>>

\* _stop_runtime: `for watcher_rid in list(rt.watchers)`: put ActorTerminated(self_ref)
StopRuntime_watchers(t) ==
    /\ At(t, "stop_runtime", "watchers")
    /\ LET f == Top(t)
       IN  IF f.todo = <<>>
           THEN tasks' = Goto(t, "stop")
           ELSE IF Head(f.todo) \notin Spawned \/ ~rts[Head(f.todo)].alive
           THEN tasks' = [tasks EXCEPT ![t].stack = WithTop(t, [f EXCEPT !.todo = Tail(@)])]
           ELSE tasks' = [tasks EXCEPT ![t].stack =
                            Call(t, [f EXCEPT !.todo = Tail(@)],
                                 PutFrame(Head(f.todo), ActorTerminated(f.rt)))]
    /\ cur' = t
    /\ UNCHANGED <<Rest, rts, registry, mailbox, calls, reply, hist>>

\* _stop_runtime: `await rt.mailbox.put(Envelope(message=STOP))`
StopRuntime_stop(t) ==
    /\ At(t, "stop_runtime", "stop")
    /\ tasks' = [tasks EXCEPT ![t].stack =
                    Call(t, [Top(t) EXCEPT !.pc = "stopped"], PutFrame(Top(t).rt, STOP))]
    /\ cur' = t
    /\ UNCHANGED <<Rest, rts, registry, mailbox, calls, reply, hist>>

\* _stop_runtime: `except Exception: rt.alive = False`
StopRuntime_stopped(t) ==
    /\ At(t, "stop_runtime", "stopped")
    /\ rts' = IF tasks[t].ret = "MailboxClosed"
              THEN [rts EXCEPT ![Top(t).rt].alive = FALSE]
              ELSE rts
    /\ tasks' = [tasks EXCEPT ![t].stack = Return(t), ![t].ret = "none"]
    /\ cur' = t
    /\ UNCHANGED <<Rest, registry, mailbox, calls, reply, hist>>

\* ActorSystem.stop(ref), which context.stop_self and context.stop call too.
\* Observation: how many envelopes the mailbox had accepted when a stop was
\* requested on a live actor.
Stop(t) ==
    /\ At(t, "stop", "call")
    /\ IF sys_closed \/ Top(t).rt \notin Spawned
       THEN /\ tasks' = [tasks EXCEPT ![t].stack = Return(t), ![t].ret = "none"]
            /\ hist' = hist
       ELSE /\ tasks' = EnterStopRuntime(t, WithTop(t, StopRuntimeFrame(Top(t).rt)))
            /\ hist' = IF IsAlive(Top(t).rt) /\ hist.due[Top(t).rt] = 0
                       THEN [hist EXCEPT !.due[Top(t).rt] = hist.accepted[Top(t).rt]]
                       ELSE hist
    /\ cur' = t
    /\ UNCHANGED <<Rest, rts, registry, mailbox, calls, reply>>

\* ---------------------------------------------------------------- restart
\* _check_restart_limits: the timestamps still inside the window
InWindow(ts, t, window) == SelectSeq(ts, LAMBDA x : (t - x) <= window)

CheckRestartLimits(rt, t) ==
    Len(InWindow(rt.restart_timestamps, t, rt.policy.within_seconds)) < rt.policy.max_restarts

\* _restart_actor: restarting = True, the budget check; an exhausted budget stops
\* the runtime and closes its mailbox, else on_stop of the old instance is called
RestartActor(t) ==
    /\ At(t, "restart_actor", "call")
    /\ LET rid == Top(t).rt
           rt == rts[rid]
           kept == InWindow(rt.restart_timestamps, now, rt.policy.within_seconds)
           closed == MailboxClose(mailbox, tasks, rid)
       IN  IF CheckRestartLimits(rt, now)
           THEN /\ rts' = [rts EXCEPT ![rid].restarting = TRUE,
                                      ![rid].restart_timestamps = kept]
                /\ tasks' = [tasks EXCEPT ![t].stack =
                                Call(t, [Top(t) EXCEPT !.pc = "stopped"],
                                     Frame("safe_on_stop", "call", rid))]
                /\ mailbox' = mailbox
           ELSE /\ rts' = [rts EXCEPT ![rid].restarting = FALSE,
                                      ![rid].restart_timestamps = kept,
                                      ![rid].alive = FALSE,
                                      ![rid].stopping = TRUE]
                /\ mailbox' = closed[1]
                /\ tasks' = [closed[2] EXCEPT ![t].stack = Return(t), ![t].ret = "none"]
    /\ cur' = t
    /\ UNCHANGED <<Rest, registry, calls, reply, hist>>

\* a restart that gives the new instance a mailbox of its own
RestartActor_stopped_NewMailbox(t) ==
    /\ At(t, "restart_actor", "stopped")
    /\ LET rid == Top(t).rt
           fresh == Len(hist.on_start[rid]) + 1
       IN  /\ rts' = [rts EXCEPT ![rid].restart_timestamps = Append(@, now),
                                 ![rid].actor = fresh,
                                 ![rid].stopping = FALSE]
           /\ registry' = IF rts[rid].name = NoName THEN registry
                          ELSE [registry EXCEPT ![rts[rid].name] = rid]
           /\ hist' = [hist EXCEPT !.on_start[rid] = Append(@, 0),
                                   !.on_stop[rid] = Append(@, 0),
                                   !.restarts[rid] = Append(@, now)]
           /\ mailbox' = [mailbox EXCEPT ![rid] = Mailbox(rts[rid].capacity)]
           /\ tasks' = [tasks EXCEPT ![t].stack =
                           Call(t, [Top(t) EXCEPT !.pc = "started"],
                                Frame("safe_on_start", "call", rid))]
    /\ cur' = t
    /\ UNCHANGED <<Rest, calls, reply>>

\* _restart_actor: the timestamp, the new instance, stopping = False, the name
\* is bound again, the new instance's on_start
RestartActor_stopped(t) ==
    /\ At(t, "restart_actor", "stopped")
    /\ LET rid == Top(t).rt
           fresh == Len(hist.on_start[rid]) + 1
       IN  /\ rts' = [rts EXCEPT ![rid].restart_timestamps = Append(@, now),
                                 ![rid].actor = fresh,
                                 ![rid].stopping = FALSE]
           /\ registry' = IF rts[rid].name = NoName THEN registry
                          ELSE [registry EXCEPT ![rts[rid].name] = rid]
           /\ hist' = [hist EXCEPT !.on_start[rid] = Append(@, 0),
                                   !.on_stop[rid] = Append(@, 0),
                                   !.restarts[rid] = Append(@, now)]
           /\ tasks' = [tasks EXCEPT ![t].stack =
                           Call(t, [Top(t) EXCEPT !.pc = "started"],
                                Frame("safe_on_start", "call", rid))]
    /\ cur' = t
    /\ UNCHANGED <<Rest, mailbox, calls, reply>>

\* _restart_actor: `rt.actor = rt.actor_factory()` raises.  No frame between
\* _restart_actor and the loop of the running task handles it (_handle_failure is
\* awaited inside the except clauses): the task's _run_actor goes to its finally
\* block with the exception pending.
RestartActor_factory_raise(t) ==
    /\ At(t, "restart_actor", "stopped")
    /\ plan.factory_fail
    /\ rts' = [rts EXCEPT ![Top(t).rt].restart_timestamps = Append(@, now)]
    /\ LET loop == tasks[t].stack[Len(tasks[t].stack)]
       IN  tasks' = [tasks EXCEPT ![t].stack =
                        <<[loop EXCEPT !.pc = "finally", !.pending = "FactoryError"]>>]
    /\ cur' = t
    /\ UNCHANGED <<Rest, registry, mailbox, calls, reply, hist>>

\* a restart that hands the new instance a message in the task that restarts it
RestartActor_started_Redeliver(t) ==
    /\ At(t, "restart_actor", "started")
    /\ rts' = [rts EXCEPT ![Top(t).rt].restarting = FALSE,
                          ![Top(t).rt].alive = IF tasks[t].ret = "false" THEN FALSE ELSE @]
    /\ tasks' = [tasks EXCEPT ![t].ret = "none", ![t].stack =
                    WithTop(t, [Frame("run_actor", "receive", Top(t).rt)
                                   EXCEPT !.env = Envelope("ok", 0, FALSE, NoRid)])]
    /\ cur' = t
    /\ UNCHANGED <<Rest, registry, mailbox, calls, reply, hist>>

\* _restart_actor: `if not started: rt.alive = False`, `rt.restarting = False`
RestartActor_started(t) ==
    /\ At(t, "restart_actor", "started")
    /\ rts' = [rts EXCEPT ![Top(t).rt].restarting = FALSE,
                          ![Top(t).rt].alive = IF tasks[t].ret = "false" THEN FALSE ELSE @]
    /\ tasks' = [tasks EXCEPT ![t].stack = Return(t), ![t].ret = "none"]
    /\ cur' = t
    /\ UNCHANGED <<Rest, registry, mailbox, calls, reply, hist>>

\* ---------------------------------------------------------------- callers
Finish(t, result) == [calls EXCEPT ![t].result = result]
Done(tks, t) == [tks EXCEPT ![t].st = "done", ![t].stack = <<>>]

\* The driver awaits its operations one after the other: after the spawns, the
\* next caller starts when the one before it has returned or raised.
NewCall(c, op, target, m, w, timeout) ==
    /\ cur = NoTask
    /\ plan.spawns = <<>>
    /\ \A b \in CallIds : tasks[b].st \in {"none", "done"}
    /\ op = "ref_for" \/ target \in Spawned \cup {NoRid}
    /\ calls[c].op = "none"
    /\ \A b \in CallIds : b < c => calls[b].op # "none"
    /\ calls' = [calls EXCEPT ![c] = [op |-> op, target |-> target, m |-> m, w |-> w,
                                      timeout |-> timeout, result |-> "none"]]
    /\ tasks' = [tasks EXCEPT ![c] =
                    [NoTaskState EXCEPT !.st = "ready", !.stack = <<Frame(op, "call", target)>>]]
    /\ UNCHANGED <<Rest, rts, registry, mailbox, cur, reply, hist>>

Start(e) ==
    \E c \in CallIds : NewCall(c, e.op, e.target, e.m, e.w, e.timeout)

Call_tell == \E e \in plan.menu : e.op = "tell" /\ e.m # "watch" /\ Start(e)

Call_ask == \E e \in plan.menu : e.op = "ask" /\ Start(e)

Call_watch == \E e \in plan.menu : e.op = "tell" /\ e.m = "watch" /\ Start(e)

Call_stop == \E e \in plan.menu : e.op = "stop" /\ Start(e)

Call_aclose == \E e \in plan.menu : e.op = "aclose" /\ Start(e)

Call_ref_for == \E e \in plan.menu : e.op = "ref_for" /\ Start(e)

Call_ref_for_name == \E e \in plan.menu : e.op = "ref_for_name" /\ Start(e)

\* ActorRef.tell: `if not self._is_alive(): raise ActorStopped`, else put
Tell(t) ==
    /\ At(t, "tell", "call")
    /\ IF IsAlive(Top(t).rt)
       THEN /\ tasks' = [tasks EXCEPT ![t].stack =
                            Call(t, [Top(t) EXCEPT !.pc = "put"],
                                 PutFrame(Top(t).rt,
                                          Envelope(calls[t].m, t, FALSE, calls[t].w)))]
            /\ calls' = calls
            /\ cur' = t
       ELSE /\ tasks' = Done(tasks, t)
            /\ calls' = Finish(t, "ActorStopped")
            /\ cur' = NoTask
    /\ UNCHANGED <<Rest, rts, registry, mailbox, reply, hist>>

\* ActorRef.tell: `except Exception: raise ActorStopped`
Tell_put(t) ==
    /\ At(t, "tell", "put")
    /\ tasks' = Done(tasks, t)
    /\ calls' = Finish(t, IF tasks[t].ret = "MailboxClosed" THEN "ActorStopped" ELSE "ok")
    /\ cur' = NoTask
    /\ UNCHANGED <<Rest, rts, registry, mailbox, reply, hist>>

\* ActorRef.ask: the liveness test, the one-shot channel, the put
Ask(t) ==
    /\ At(t, "ask", "call")
    /\ IF IsAlive(Top(t).rt)
       THEN /\ tasks' = [tasks EXCEPT ![t].stack =
                            Call(t, [Top(t) EXCEPT !.pc = "put"],
                                 PutFrame(Top(t).rt,
                                          Envelope(calls[t].m, t, TRUE, calls[t].w)))]
            /\ calls' = calls
            /\ reply' = [reply EXCEPT ![t] = "open"]
            /\ cur' = t
       ELSE /\ tasks' = Done(tasks, t)
            /\ calls' = Finish(t, "ActorStopped")
            /\ reply' = reply
            /\ cur' = NoTask
    /\ UNCHANGED <<Rest, rts, registry, mailbox, hist>>

\* ActorRef.ask: a failed put raises (the finally closes the channel), else the
\* checkpoint that opens recv.receive()
Ask_put(t) ==
    /\ At(t, "ask", "put")
    /\ IF tasks[t].ret = "MailboxClosed"
       THEN /\ tasks' = Done(tasks, t)
            /\ calls' = Finish(t, "MailboxClosed")
            /\ reply' = [reply EXCEPT ![t] = "closed"]
       ELSE /\ tasks' = Goto(t, "receive")
            /\ UNCHANGED <<calls, reply>>
    /\ cur' = NoTask
    /\ UNCHANGED <<Rest, rts, registry, mailbox, hist>>

\* ActorRef.ask: receive_nowait on the reply channel, else the caller blocks
Ask_receive(t) ==
    /\ At(t, "ask", "receive")
    /\ IF reply[t] \notin {"open", "closed"}
       THEN /\ tasks' = Done(tasks, t)
            /\ calls' = Finish(t, reply[t])
            /\ reply' = [reply EXCEPT ![t] = "closed"]
       ELSE /\ tasks' = [Goto(t, "reply") EXCEPT ![t].st = "reply"]
            /\ UNCHANGED <<calls, reply>>
    /\ cur' = NoTask
    /\ UNCHANGED <<Rest, rts, registry, mailbox, hist>>

\* ActorRef.ask: the blocked caller resumes with the Reply: `raise reply.error`
\* or `return reply.value`; the finally closes the channel
Ask_reply(t) ==
    /\ At(t, "ask", "reply")
    /\ tasks' = Done(tasks, t)
    /\ calls' = Finish(t, reply[t])
    /\ reply' = [reply EXCEPT ![t] = "closed"]
    /\ cur' = NoTask
    /\ UNCHANGED <<Rest, rts, registry, mailbox, hist>>

\* ActorRef.ask: fail_after(timeout) expires while the caller waits: AskTimeout,
\* and the finally closes the channel
Ask_timeout(t) ==
    /\ cur = NoTask
    /\ t \in CallIds
    /\ tasks[t].st = "reply"
    /\ calls[t].timeout
    /\ tasks' = Done(tasks, t)
    /\ calls' = Finish(t, "AskTimeout")
    /\ reply' = [reply EXCEPT ![t] = "closed"]
    /\ UNCHANGED <<Rest, rts, registry, mailbox, cur, hist>>

\* ActorSystem.ref_for(address): the address is (system calls[t].m, actor_id the
\* call's target).  Observation: whether the runtime of a returned reference was
\* alive and not stopping.
RefFor(t) ==
    /\ At(t, "ref_for", "call")
    /\ LET address == [system |-> calls[t].m, actor_id |-> Top(t).rt]
           found == address.system = SystemId /\ address.actor_id \in Spawned
           rt == rts[address.actor_id]
       IN  IF found /\ rt.alive /\ ~rt.stopping
           THEN /\ calls' = Finish(t, "ActorRef")
                /\ hist' = [hist EXCEPT !.live[t] = rt.alive /\ ~rt.stopping]
           ELSE /\ calls' = Finish(t, "ActorStopped")
                /\ hist' = hist
    /\ tasks' = Done(tasks, t)
    /\ cur' = NoTask
    /\ UNCHANGED <<Rest, rts, registry, mailbox, reply>>

\* ActorSystem.ref_for_name(name): the name is calls[t].m
RefForName(t) ==
    /\ At(t, "ref_for_name", "call")
    /\ LET address == registry[calls[t].m]
       IN  IF address = NoRid \/ address \notin Spawned
           THEN /\ calls' = Finish(t, "ActorStopped")
                /\ hist' = hist
           ELSE /\ calls' = Finish(t, "ActorRef")
                /\ hist' = [hist EXCEPT !.live[t] =
                                rts[address].alive /\ ~rts[address].stopping]
    /\ tasks' = Done(tasks, t)
    /\ cur' = NoTask
    /\ UNCHANGED <<Rest, rts, registry, mailbox, reply>>

\* a caller whose operation (stop, aclose) has returned
Call_return(t) ==
    /\ cur \in {NoTask, t}
    /\ t \in CallIds
    /\ tasks[t].st = "ready"
    /\ tasks[t].stack = <<>>
    /\ tasks' = Done(tasks, t)
    /\ calls' = Finish(t, "ok")
    /\ cur' = NoTask
    /\ UNCHANGED <<Rest, rts, registry, mailbox, reply, hist>>

\* ----------------------------------------------------------------- aclose
\* ActorSystem.aclose: `if self._closed: return`, `self._closed = True`, the roots
Aclose(t) ==
    /\ At(t, "aclose", "call")
    /\ IF sys_closed
       THEN /\ tasks' = [tasks EXCEPT ![t].stack = Return(t), ![t].ret = "none"]
            /\ sys_closed' = sys_closed
       ELSE /\ tasks' = [tasks EXCEPT ![t].stack =
                            WithTop(t, [Top(t) EXCEPT !.pc = "roots", !.todo =
                                SelectSeq(by_id, LAMBDA r : rts[r].parent = NoRid)])]
            /\ sys_closed' = TRUE
    /\ cur' = t
    /\ UNCHANGED <<by_id, next_id, dead_letters, now, plan, Outside, rts, registry, mailbox,
                   calls, reply, hist>>

\* aclose: `for rt in roots: await self._stop_runtime(rt)`
Aclose_roots(t) ==
    /\ At(t, "aclose", "roots")
    /\ IF Top(t).todo = <<>>
       THEN tasks' = Goto(t, "mailboxes")
       ELSE tasks' = EnterStopRuntime(t, Call(t, [Top(t) EXCEPT !.todo = Tail(@)],
                                              StopRuntimeFrame(Head(Top(t).todo))))
    /\ cur' = t
    /\ UNCHANGED <<Rest, rts, registry, mailbox, calls, reply, hist>>

CloseAll(mbs, tks) ==
    LET RECURSIVE Each(_, _)
        Each(todo, mt) == IF todo = <<>> THEN mt
                          ELSE Each(Tail(todo), MailboxClose(mt[1], mt[2], Head(todo)))
    IN Each(by_id, <<mbs, tks>>)

\* aclose: `for rt in self._actors: await rt.mailbox.aclose()`
Aclose_mailboxes(t) ==
    /\ At(t, "aclose", "mailboxes")
    /\ LET closed == CloseAll(mailbox, tasks)
       IN  /\ mailbox' = closed[1]
           /\ tasks' = [closed[2] EXCEPT ![t].stack = WithTop(t, [Top(t) EXCEPT !.pc = "join"])]
    /\ cur' = NoTask
    /\ UNCHANGED <<Rest, rts, registry, calls, reply, hist>>

\* aclose: `await tg.__aexit__(None, None, None)` returns when every loop has ended
Aclose_join(t) ==
    /\ At(t, "aclose", "join")
    /\ \A r \in Spawned : tasks[r].st = "done"
    /\ tasks' = [tasks EXCEPT ![t].stack = Return(t), ![t].ret = "none"]
    /\ cur' = t
    /\ UNCHANGED <<Rest, rts, registry, mailbox, calls, reply, hist>>

\* ----------------------------------------------------------- dead letters
\* deadletters.DeadLetter(ref, message, kind, when); c is the call that made it
\* (0: pushed by the program itself)
DeadLetter(c, ref, message, kind) ==
    [c |-> c, ref |-> ref, message |-> message, kind |-> kind, when |-> now]

\* DeadLetterMailbox.push: `self._messages.append(dl)`, then the observer
\* on_dead_letter.  Observation: how often the observer was called.
Push(dl) ==
    /\ cur = NoTask
    /\ Len(dead_letters) < MaxPushes
    /\ dead_letters' = Append(dead_letters, dl)
    /\ hist' = [hist EXCEPT !.observed = @ + 1]
    /\ UNCHANGED <<sys_closed, by_id, next_id, rts, registry, mailbox, tasks, cur, now,
                   calls, reply, plan, Outside>>

\* the program pushes dead letters into system.dead_letters
DeadLetterPush ==
    \E ref \in Rids, message \in {"ok", "boom"}, kind \in {"tell", "ask"} :
        Push(DeadLetter(0, ref, message, kind))

\* ------------------------------------------------------------------ clock
\* anyio.current_time() advances; it is read only against restart timestamps
Tick ==
    /\ cur = NoTask
    /\ now < MaxTime
    /\ \E r \in Spawned : rts[r].restart_timestamps # <<>>
    /\ now' = now + 1
    /\ UNCHANGED <<sys_closed, by_id, next_id, rts, registry, mailbox, dead_letters, tasks,
                   cur, calls, reply, plan, Outside, hist>>

\* ------------------------------------------------------------------- spec
Step(t) ==
    \/ Put_check(t) \/ Put_send(t) \/ Put_sent(t)
    \/ RunActor_start(t) \/ RunActor_started(t) \/ RunActor_loop(t)
    \/ RunActor_get(t) \/ RunActor_got(t) \/ RunActor_env(t)
    \/ Receive_ok(t) \/ Receive_boom(t) \/ Receive_stop_self(t) \/ Receive_watch(t)
    \/ Receive_await(t) \/ Receive_resume(t)
    \/ RunActor_reply(t) \/ RunActor_reply_send(t) \/ RunActor_except(t)
    \/ RunActor_except_reply(t) \/ RunActor_error_send(t) \/ RunActor_after(t)
    \/ RunActor_finally(t) \/ RunActor_notify(t) \/ RunActor_on_stop(t)
    \/ RunActor_aclose(t)
    \/ SafeOnStart_ok(t) \/ SafeOnStart_raise(t) \/ SafeOnStart_failed(t)
    \/ SafeOnStop_return(t) \/ SafeOnStop_await(t) \/ SafeOnStop_resumed(t)
    \/ HandleFailure_stopping(t) \/ HandleFailure_supervisor(t)
    \/ HandleFailure_policy(t) \/ HandleFailure_escalated(t)
    \/ ApplySupervisorDecision(t) \/ ApplySupervisorDecision_escalated(t)
    \/ StopRuntime_enter(t) \/ StopRuntime_children(t) \/ StopRuntime_self(t)
    \/ StopRuntime_watchers(t) \/ StopRuntime_stop(t) \/ StopRuntime_stopped(t)
    \/ Stop(t)
    \/ RestartActor(t) \/ RestartActor_stopped(t) \/ RestartActor_factory_raise(t)
    \/ RestartActor_started(t)
    \/ Tell(t) \/ Tell_put(t)
    \/ Ask(t) \/ Ask_put(t) \/ Ask_receive(t) \/ Ask_reply(t) \/ Ask_timeout(t)
    \/ RefFor(t) \/ RefForName(t)
    \/ Call_return(t)
    \/ Aclose(t) \/ Aclose_roots(t) \/ Aclose_mailboxes(t) \/ Aclose_join(t)

Next ==
    \/ Spawn
    \/ Call_tell \/ Call_ask \/ Call_watch \/ Call_stop \/ Call_aclose
    \/ Call_ref_for \/ Call_ref_for_name
    \/ Tick
    \/ \E t \in TaskIds : Step(t)

Spec == Init /\ [][Next]_vars

\* The dead-letter mailbox of a system on its own: any sequence of pushes.
InitDeadLetters == Init /\ plan = PlanUnbounded

NextDeadLetters == DeadLetterPush

SpecDeadLetters == InitDeadLetters /\ [][NextDeadLetters]_vars

\* -------------------------------------------------------- file persistence
\* anyio.Lock: acquire takes a free lock and otherwise queues the caller;
\* release hands the lock to the caller that has waited longest. locked is the
\* order in which the callers have held the lock.
Grant(st, p) == [st EXCEPT !.owner = p, !.locked = Append(@, p)]

Acquire(st, p) ==
    IF st.owner = NoOp THEN Grant(st, p) ELSE [st EXCEPT !.waiters = Append(@, p)]

Release(st) ==
    IF st.waiters = <<>> THEN [st EXCEPT !.owner = NoOp]
    ELSE Grant([st EXCEPT !.waiters = Tail(@)], Head(st.waiters))

\* a caller starts its call: callers are numbered in the order they start
CanInvoke(p, op) ==
    /\ ops[p].pc = "idle" /\ p <= store.calls
    /\ \A q \in OpIds : q < p => ops[q].pc # "idle"
    /\ store.sequential => \A q \in OpIds : ops[q].pc \in {"idle", "done"}
    /\ \E c \in store.menu : c.op = op

FileSize(f) ==
    LET RECURSIVE Sum(_)
        Sum(d) == IF d = <<>> THEN 0 ELSE Head(d).size + Sum(Tail(d))
    IN  Sum(f.data)

\* RotatingFilePersistence._maybe_rotate(next_line_len)
MaybeRotate(st, next_line_len) ==
    LET RECURSIVE Shift(_, _)
        Shift(files, i) ==
            IF i < 1 THEN files
            ELSE IF files[i].exists
                 THEN Shift([files EXCEPT ![i + 1] = files[i], ![i] = NoFile], i - 1)
                 ELSE Shift(files, i - 1)
    IN  IF ~st.files[0].exists THEN st.files
        ELSE IF FileSize(st.files[0]) + next_line_len <= st.max_bytes THEN st.files
        ELSE IF st.max_files = 1
             THEN [st.files EXCEPT ![0] = [exists |-> TRUE, data |-> <<>>]]
        ELSE IF st.files[st.max_files - 1].exists THEN st.files
        ELSE LET shifted == Shift(st.files, st.max_files - 2)
             IN  [shifted EXCEPT ![1] = shifted[0], ![0] = NoFile]

\* record_event, record_audit, record_dead_letter up to the await of the lock
\* in _append: the rotating backend looks at _closed before it asks for the lock
\* (seen remembers the caller that held the lock at that moment)
RecordEvent(p) ==
    /\ CanInvoke(p, "record")
    /\ \E c \in store.menu :
          /\ c.op = "record"
          /\ IF store.kind = "rotating" /\ store.closed
             THEN /\ ops' = [ops EXCEPT ![p] = [@ EXCEPT !.arg = c, !.pc = "done"]]
                  /\ UNCHANGED store
             ELSE /\ ops' = [ops EXCEPT ![p] = [@ EXCEPT
                                             !.arg = c, !.pc = "lock",
                                             !.seen = IF store.owner = NoOp THEN <<>>
                                                      ELSE <<store.owner>>]]
                  /\ store' = Acquire(store, p)
    /\ UNCHANGED NotStore

\* an append that writes without waiting for the lock
FileAppend_Unlocked(p) ==
    /\ ops[p].arg.op = "record" /\ ops[p].pc = "lock"
    /\ LET c == ops[p].arg
           written == [store.files EXCEPT ![0] =
                          [exists |-> TRUE,
                           data |-> Append(@.data, Record(p, c.kind, c.ts, c.size))]]
           mine == IF store.owner = p THEN Release(store)
                   ELSE [store EXCEPT !.waiters = SelectSeq(@, LAMBDA q : q # p)]
       IN  store' = [mine EXCEPT !.files = written]
    /\ ops' = [ops EXCEPT ![p].pc = "done"]
    /\ UNCHANGED NotStore

\* _append with the lock held: the NDJSON backend looks at _closed here; the
\* rotating backend rotates if the line does not fit; the line is appended to
\* the active file and the lock is released
FileAppend(p) ==
    /\ ops[p].arg.op = "record" /\ ops[p].pc = "lock" /\ store.owner = p
    /\ LET c == ops[p].arg
           rotated == IF store.kind = "rotating" THEN MaybeRotate(store, c.size)
                      ELSE store.files
           written == [rotated EXCEPT ![0] =
                          [exists |-> TRUE,
                           data |-> Append(@.data, Record(p, c.kind, c.ts, c.size))]]
       IN  IF store.kind = "json" /\ store.closed
           THEN store' = Release(store)
           ELSE store' = Release([store EXCEPT !.files = written])
    /\ ops' = [ops EXCEPT ![p].pc = "done"]
    /\ UNCHANGED NotStore

\* aclose up to the await of the lock
StoreAclose(p) ==
    /\ CanInvoke(p, "aclose")
    /\ ops' = [ops EXCEPT ![p] = [@ EXCEPT !.arg = OpSpec("aclose", "event", 0, 0, None),
                                          !.pc = "lock"]]
    /\ store' = Acquire(store, p)
    /\ UNCHANGED NotStore

\* aclose with the lock held: _closed = True; sealed remembers the files at the
\* moment the first aclose returns
StoreAcloseLocked(p) ==
    /\ ops[p].arg.op = "aclose" /\ ops[p].pc = "lock" /\ store.owner = p
    /\ store' = Release([store EXCEPT
                            !.closed = TRUE,
                            !.sealed = IF @.on THEN @
                                       ELSE [on |-> TRUE, files |-> store.files]])
    /\ ops' = [ops EXCEPT ![p].pc = "done"]
    /\ UNCHANGED NotStore

\* _retention.apply_retention(rows, policy) for a policy of max_records: the
\* newest max_records rows are kept
ApplyRetention(rows, retention) ==
    IF retention = None \/ Len(rows) <= retention THEN rows
    ELSE SubSeq(rows, Len(rows) - retention + 1, Len(rows))

\* a read that starts with the active file and goes on to the rotated files
ReadAll_ActiveFirst(st) ==
    LET Data(i) == IF st.files[i].exists THEN st.files[i].data ELSE <<>>
        RECURSIVE Rotated(_)
        Rotated(i) == IF i < 1 THEN <<>> ELSE Rotated(i - 1) \o Data(i)
        lines == Data(0)
                 \o (IF st.kind = "rotating" THEN Rotated(st.max_files - 1) ELSE <<>>)
    IN  ApplyRetention(SelectSeq(lines, LAMBDA l : l.ok), st.retention)

\* _read_all: the lines of the files that exist, rotated files from the highest
\* index down to 1 and the active file last (_iter_read_paths_oldest_first);
\* lines that are not JSON objects are skipped, retention is applied
ReadAll(st) ==
    LET Data(i) == IF st.files[i].exists THEN st.files[i].data ELSE <<>>
        RECURSIVE Rotated(_)
        Rotated(i) == IF i < 1 THEN <<>> ELSE Data(i) \o Rotated(i - 1)
        lines == (IF st.kind = "rotating" THEN Rotated(st.max_files - 1) ELSE <<>>)
                 \o Data(0)
    IN  ApplyRetention(SelectSeq(lines, LAMBDA l : l.ok), st.retention)

\* items[-limit:] of list_events, list_audits and list_dead_letters
Limit(items, limit) ==
    LET start == IF -limit < 0
                 THEN (IF Len(items) - limit < 0 THEN 0 ELSE Len(items) - limit)
                 ELSE (IF -limit > Len(items) THEN Len(items) ELSE -limit)
    IN  SubSeq(items, start + 1, Len(items))

\* the since filter of list_*: the NDJSON backend compares the timestamp of the
\* record; the rotating backend takes `timestamp or created_at` for events and
\* audits (the records have no created_at, so a timestamp of 0 gives None and
\* the record is skipped) and the timestamp itself for dead letters
SinceKeeps(st, kind, r, since) ==
    IF since = None THEN TRUE
    ELSE IF st.kind = "json" THEN ~(r.ts < since)
    ELSE LET ts == IF kind = "dead_letter" THEN r.ts
                   ELSE IF r.ts # 0 THEN r.ts ELSE None
         IN  ~(ts = None \/ ts < since)

\* list_events, list_audits, list_dead_letters(limit, since): no lock is taken
\* (seen remembers the callers that have held and released the lock, in that
\* order)
ListRecords(p) ==
    /\ CanInvoke(p, "list")
    /\ \E c \in store.menu :
          /\ c.op = "list"
          /\ LET rows == ApplyRetention(ReadAll(store), store.retention)
                 items == SelectSeq(rows, LAMBDA r : r.kind = c.kind
                                                    /\ SinceKeeps(store, c.kind, r, c.since))
             IN  ops' = [ops EXCEPT ![p] =
                            [pc |-> "done", arg |-> c, late |-> store.sealed.on,
                             seen |-> SelectSeq(store.locked, LAMBDA q : ops[q].pc = "done"),
                             result |-> IF c.limit = None THEN items
                                        ELSE Limit(items, c.limit)]]
    /\ UNCHANGED <<NotStore, store>>

\* compact up to the await of the lock
Compact(p) ==
    /\ CanInvoke(p, "compact")
    /\ ops' = [ops EXCEPT ![p] = [@ EXCEPT !.arg = OpSpec("compact", "event", 0, 0, None),
                                          !.pc = "lock"]]
    /\ store' = Acquire(store, p)
    /\ UNCHANGED NotStore

\* the rows compact keeps: the lines that are JSON objects, after retention
CompactRows(st) ==
    ApplyRetention(SelectSeq(IF st.files[0].exists THEN st.files[0].data ELSE <<>>,
                             LAMBDA l : l.ok),
                   st.retention)

\* a compaction that rewrites the file in place instead of a temporary file
CompactWrite_InPlace(p) ==
    /\ ops[p].arg.op = "compact" /\ ops[p].pc = "lock" /\ store.owner = p
    /\ LET rows == CompactRows(store)
       IN  \/ /\ store' = [store EXCEPT !.tmp = [exists |-> TRUE, data |-> rows]]
              /\ ops' = [ops EXCEPT ![p].pc = "replace", ![p].seen = store.files[0].data]
           \/ \E k \in 0..Len(rows) :
                 /\ store' = Release([store EXCEPT
                                         !.files[0] = [exists |-> TRUE,
                                                       data |-> SubSeq(rows, 1, k)]])
                 /\ ops' = [ops EXCEPT ![p].pc = "failed", ![p].seen = store.files[0].data,
                                       ![p].result = SubSeq(rows, 1, k)]
    /\ UNCHANGED NotStore

\* compact with the lock held: the rows are read and written to
\* <path>.compact.tmp; a write may fail after any number of rows, which ends
\* the call with the exception
CompactWrite(p) ==
    /\ ops[p].arg.op = "compact" /\ ops[p].pc = "lock" /\ store.owner = p
    /\ LET rows == CompactRows(store)
       IN  \/ /\ store' = [store EXCEPT !.tmp = [exists |-> TRUE, data |-> rows]]
              /\ ops' = [ops EXCEPT ![p].pc = "replace", ![p].seen = store.files[0].data]
           \/ \E k \in 0..Len(rows) :
                 /\ store' = Release([store EXCEPT
                                         !.tmp = [exists |-> TRUE, data |-> SubSeq(rows, 1, k)]])
                 /\ ops' = [ops EXCEPT ![p].pc = "failed", ![p].seen = store.files[0].data,
                                       ![p].result = store.files[0].data]
    /\ UNCHANGED NotStore

\* compact: os.replace(tmp_path, self._path), the lock is released
CompactReplace(p) ==
    /\ ops[p].arg.op = "compact" /\ ops[p].pc = "replace" /\ store.owner = p
    /\ store' = Release([store EXCEPT !.files[0] = store.tmp, !.tmp = NoFile])
    /\ ops' = [ops EXCEPT ![p].pc = "done", ![p].result = store.tmp.data]
    /\ UNCHANGED NotStore

\* ---- compaction of an NDJSON file of any content while records are appended
Lines(n) ==
    UNION {{[i \in 1..k |-> [Record(MaxOps + i, "event", 0, 1) EXCEPT !.ok = f[i]]] :
               f \in [1..k -> BOOLEAN]} : k \in 0..n}

InitCompact ==
    /\ InitSystem
    /\ startup = Running
    /\ plan = PlanUnbounded
    /\ addr = NoAddr
    /\ redis = NoRedis
    /\ ops = NoOps
    /\ \E lines \in Lines(MaxLines), retention \in {None} \cup 1..MaxRetention :
          store = [NoStore EXCEPT
                      !.kind = "json", !.retention = retention, !.sequential = FALSE,
                      !.files[0] = [exists |-> lines # <<>>, data |-> lines],
                      !.menu = {OpSpec("record", "event", 0, 1, None),
                                OpSpec("compact", "event", 0, 0, None)}]

NextCompact ==
    \E p \in OpIds :
        \/ RecordEvent(p)
        \/ FileAppend(p)
        \/ Compact(p)
        \/ CompactWrite(p)
        \/ CompactReplace(p)

SpecCompact == InitCompact /\ [][NextCompact]_vars

\* ---- closing a backend while records are written and read
InitClose ==
    /\ InitSystem
    /\ startup = Running
    /\ plan = PlanUnbounded
    /\ addr = NoAddr
    /\ redis = NoRedis
    /\ ops = NoOps
    /\ \E kind \in {"json", "rotating"} :
          store = [NoStore EXCEPT
                      !.kind = kind, !.max_files = MaxFiles, !.max_bytes = MaxBytes,
                      !.sequential = FALSE,
                      !.menu = {OpSpec("record", "event", 0, 1, None),
                                OpSpec("aclose", "event", 0, 0, None),
                                OpSpec("list", "event", 0, 0, None)}]

NextClose ==
    \E p \in OpIds :
        \/ RecordEvent(p)
        \/ FileAppend(p)
        \/ StoreAclose(p)
        \/ StoreAcloseLocked(p)
        \/ ListRecords(p)

SpecClose == InitClose /\ [][NextClose]_vars

\* ----------------------------------------------------- stream-log backend
\* XREVRANGE key + - COUNT n: the newest n entries, newest first
Newest(stream, n) ==
    LET m == IF Len(stream) < n THEN Len(stream) ELSE n
    IN  [i \in 1..m |-> stream[Len(stream) + 1 - i]]

\* the entries of the sample that scan and recover find invalid
BadEntries(r, key) ==
    SelectSeq(Newest(r.streams[key], r.scan_sample_size), LAMBDA e : e.form # "object")

\* bad_payloads: str(raw) if raw is not None else "" (0 stands for the empty text)
Payload(e) == IF e.form = "missing" THEN 0 ELSE e.id

\* scan: the anomalies found in the newest scan_sample_size entries of each stream
Anomalies(r) == Len(BadEntries(r, Keys[1])) + Len(BadEntries(r, Keys[2]))
                    + Len(BadEntries(r, Keys[3]))

\* _metrics_on_write_ok(records=1, bytes_written=nbytes), _metrics_on_write_error()
MetricsOnWrite(m, ok, nbytes) ==
    IF ok THEN [m EXCEPT !.records_written = @ + 1, !.bytes_written = @ + nbytes]
    ELSE [m EXCEPT !.write_errors = @ + 1]

Snap(r) == [streams |-> r.streams, quarantine |-> r.quarantine, metrics |-> r.metrics]

\* the call at the head of the script returns or raises
Returns(r, raised, failed, anomalies) ==
    [r EXCEPT !.pc = "idle", !.script = Tail(@), !.bad = <<>>, !.todo = <<>>, !.key = 1,
              !.log = Append(@, [op |-> Head(r.script).op, mode |-> Head(r.script).mode,
                                 raised |-> raised, failed |-> failed,
                                 anomalies |-> anomalies, pc |-> r.pc, key |-> r.key,
                                 before |-> r.start, after |-> Snap(r)])]

\* record_event, record_audit, record_dead_letter: XADD under the lock; the
\* command succeeds or the connection raises
RedisRecordEvent ==
    /\ redis.pc = "idle" /\ redis.script # <<>> /\ Head(redis.script).op = "record"
    /\ LET c == Head(redis.script)
           r == [redis EXCEPT !.start = Snap(redis)]
       IN  IF r.closed THEN redis' = Returns(r, FALSE, FALSE, 0)
           ELSE \/ redis' = Returns([r EXCEPT
                                        !.streams[c.kind] = Append(@, Entry(r.next, "object")),
                                        !.seen[c.kind] = @ \cup {Entry(r.next, "object")},
                                        !.next = @ + 1,
                                        !.metrics = MetricsOnWrite(@, TRUE, 1)],
                                    FALSE, FALSE, 0)
                \/ redis' = Returns([r EXCEPT !.metrics = MetricsOnWrite(@, FALSE, 0)],
                                    TRUE, TRUE, 0)
    /\ UNCHANGED NotRedis

\* scan()
RedisScan ==
    /\ redis.pc = "idle" /\ redis.script # <<>> /\ Head(redis.script).op = "scan"
    /\ redis' = Returns([redis EXCEPT !.start = Snap(redis)], FALSE, FALSE, Anomalies(redis))
    /\ UNCHANGED NotRedis

\* recover(config) up to the loop over the keys: it scans, and returns when
\* the mode is IGNORE or the scan found nothing
RedisRecover ==
    /\ redis.pc = "idle" /\ redis.script # <<>> /\ Head(redis.script).op = "recover"
    /\ LET r == [redis EXCEPT !.start = Snap(redis)]
       IN  IF Head(r.script).mode = "IGNORE" \/ Anomalies(r) = 0
           THEN redis' = Returns(r, FALSE, FALSE, Anomalies(r))
           ELSE redis' = [r EXCEPT !.pc = "sample", !.key = 1]
    /\ UNCHANGED NotRedis

\* a recovery that deletes the invalid entries of a key without republishing them
RecoverSample_DeleteOnly ==
    /\ redis.pc = "sample"
    /\ IF redis.key > Len(Keys) THEN redis' = Returns(redis, FALSE, FALSE, 0)
       ELSE LET bad == BadEntries(redis, Keys[redis.key])
            IN  IF bad = <<>> THEN redis' = [redis EXCEPT !.key = @ + 1]
                ELSE redis' = [redis EXCEPT !.bad = bad, !.pc = "xdel"]
    /\ UNCHANGED NotRedis

\* recover, for key in keys: XREVRANGE of the sample and the search for invalid
\* entries; after the last key recover returns its report
RecoverSample ==
    /\ redis.pc = "sample"
    /\ IF redis.key > Len(Keys) THEN redis' = Returns(redis, FALSE, FALSE, 0)
       ELSE LET bad == BadEntries(redis, Keys[redis.key])
            IN  IF bad = <<>> THEN redis' = [redis EXCEPT !.key = @ + 1]
                ELSE IF Head(redis.script).mode = "QUARANTINE"
                     THEN redis' = [redis EXCEPT !.bad = bad, !.todo = bad, !.pc = "xadd"]
                     ELSE redis' = [redis EXCEPT !.bad = bad, !.pc = "xdel"]
    /\ UNCHANGED NotRedis

\* recover in QUARANTINE mode: one XADD of an invalid payload to the quarantine
\* stream of the key; the command succeeds or raises
RecoverQuarantine ==
    /\ redis.pc = "xadd"
    /\ LET key == Keys[redis.key]
       IN  \/ redis' = [redis EXCEPT
                           !.quarantine[key] =
                               Append(@, [source |-> key, data |-> Payload(Head(redis.todo))]),
                           !.todo = Tail(@),
                           !.pc = IF Tail(redis.todo) = <<>> THEN "xdel" ELSE "xadd"]
           \/ redis' = Returns(redis, TRUE, TRUE, 0)
    /\ UNCHANGED NotRedis

\* recover: XDEL key *bad_ids, then the next key
RecoverDelete ==
    /\ redis.pc = "xdel"
    /\ LET key == Keys[redis.key]
           ids == {redis.bad[i].id : i \in 1..Len(redis.bad)}
       IN  \/ redis' = [redis EXCEPT
                           !.streams[key] = SelectSeq(@, LAMBDA e : e.id \notin ids),
                           !.bad = <<>>, !.key = @ + 1, !.pc = "sample"]
           \/ redis' = Returns(redis, TRUE, TRUE, 0)
    /\ UNCHANGED NotRedis

\* the streams hold any mix of valid and invalid entries; the caller records,
\* or recovers and then scans or recovers again
Contents(n) ==
    UNION {{[i \in 1..k |-> Entry(i, f[i])] : f \in [1..k -> Forms]} : k \in 0..n}

InitRedis ==
    /\ InitSystem
    /\ startup = Running
    /\ plan = PlanUnbounded
    /\ addr = NoAddr
    /\ store = NoStore
    /\ ops = NoOps
    /\ \E events \in Contents(MaxStream), audits \in Contents(1), dead \in Contents(1),
          size \in 1..MaxStream,
          script \in {<<RedisOp("record", k, "IGNORE"), RedisOp("record", "event", "IGNORE")>> :
                          k \in Kinds}
                     \cup {<<RedisOp("recover", "event", m), RedisOp("scan", "event", m)>> :
                              m \in Modes}
                     \cup {<<RedisOp("recover", "event", m), RedisOp("recover", "event", m)>> :
                              m \in Modes} :
          LET r == [NoRedis EXCEPT
                       !.streams = [k \in Kinds |-> IF k = "event" THEN events
                                                    ELSE IF k = "audit" THEN audits ELSE dead],
                       !.scan_sample_size = size, !.next = MaxStream + 1, !.script = script]
          IN  redis = [r EXCEPT !.seen = [k \in Kinds |->
                                             {r.streams[k][i] : i \in 1..Len(r.streams[k])}],
                                !.start = Snap(r)]

NextRedis ==
    \/ RedisRecordEvent
    \/ RedisScan
    \/ RedisRecover
    \/ RecoverSample
    \/ RecoverQuarantine
    \/ RecoverDelete

SpecRedis == InitRedis /\ [][NextRedis]_vars

\* ---- appends and reads of a rotating backend, one call after the other
InitRotate ==
    /\ InitSystem
    /\ startup = Running
    /\ plan = PlanUnbounded
    /\ addr = NoAddr
    /\ redis = NoRedis
    /\ ops = NoOps
    /\ \E max_files \in 1..MaxFiles, max_bytes \in 1..MaxBytes :
          store = [NoStore EXCEPT
                      !.kind = "rotating", !.max_files = max_files, !.max_bytes = max_bytes,
                      !.menu = {OpSpec("record", "event", 0, size, None) : size \in 1..MaxBytes}
                               \cup {OpSpec("list", "event", 0, 0, None)}]

NextRotate ==
    \E p \in OpIds :
        \/ RecordEvent(p)
        \/ FileAppend(p)
        \/ ListRecords(p)

SpecRotate == InitRotate /\ [][NextRotate]_vars

\* ---- concurrent writers of one NDJSON file (test_json_file_persistence):
\* an open backend without retention, records of the three kinds and reads
InitAppend ==
    /\ InitSystem
    /\ startup = Running
    /\ plan = PlanUnbounded
    /\ addr = NoAddr
    /\ redis = NoRedis
    /\ ops = NoOps
    /\ store = [NoStore EXCEPT
                   !.kind = "json", !.sequential = FALSE,
                   !.menu = {OpSpec(op, kind, 0, 1, None) :
                                op \in {"record", "list"}, kind \in Kinds}]

NextAppend ==
    \E p \in OpIds :
        \/ RecordEvent(p)
        \/ FileAppend(p)
        \/ ListRecords(p)

SpecAppend == InitAppend /\ [][NextAppend]_vars

\* ---- reads with a limit (test_limit_and_since_filters): either file backend,
\* with or without retention, records of two kinds and list_events(limit=n)
InitLimit ==
    /\ InitSystem
    /\ startup = Running
    /\ plan = PlanUnbounded
    /\ addr = NoAddr
    /\ redis = NoRedis
    /\ ops = NoOps
    /\ \E kind \in {"json", "rotating"}, retention \in {None} \cup 1..MaxRetention :
          store = [NoStore EXCEPT
                      !.kind = kind, !.retention = retention,
                      !.max_files = MaxFiles, !.max_bytes = MaxBytes,
                      !.menu = {OpSpec("record", k, 0, 1, None) : k \in {"event", "audit"}}
                               \cup {OpSpec("list", "event", 0, 0, n) : n \in 0..MaxOps}]

NextLimit ==
    \E p \in OpIds :
        \/ RecordEvent(p)
        \/ FileAppend(p)
        \/ ListRecords(p)

SpecLimit == InitLimit /\ [][NextLimit]_vars

\* ---- reads with since (test_limit_and_since_filters_work_with_rotation):
\* either file backend, records with timestamps 0..MaxTs, list_*(since=s)
InitSince ==
    /\ InitSystem
    /\ startup = Running
    /\ plan = PlanUnbounded
    /\ addr = NoAddr
    /\ redis = NoRedis
    /\ ops = NoOps
    /\ \E kind \in {"json", "rotating"} :
          store = [NoStore EXCEPT
                      !.kind = kind, !.max_files = MaxFiles, !.max_bytes = MaxBytes,
                      !.menu = {OpSpec("record", k, ts, 1, None) :
                                   k \in {"event", "dead_letter"}, ts \in 0..MaxTs}
                               \cup {Since(OpSpec("list", k, 0, 0, None), s) :
                                        k \in {"event", "dead_letter"}, s \in 0..MaxTs}]

NextSince ==
    \E p \in OpIds :
        \/ RecordEvent(p)
        \/ FileAppend(p)
        \/ ListRecords(p)

SpecSince == InitSince /\ [][NextSince]_vars

\* ---- the address round trip (test_actor_address_roundtrip_string_parse):
\* every address with a non-empty system id is written and parsed back
InitAddress ==
    /\ InitSystem
    /\ startup = Running
    /\ plan = PlanUnbounded
    /\ \E system \in Strings(MaxSystemLen) \ {<<>>}, actor_id \in 0..MaxActorId :
          addr = [NoAddr EXCEPT !.a = [system |-> system, actor_id |-> actor_id]]
    /\ store = NoStore
    /\ ops = NoOps
    /\ redis = NoRedis

AddressStr ==
    /\ addr.pc = "none"
    /\ addr' = [addr EXCEPT !.raw = Str(addr.a), !.pc = "str"]
    /\ UNCHANGED NotAddress

AddressParse ==
    /\ addr.pc = "str"
    /\ addr' = [addr EXCEPT !.parsed = Parse(addr.raw), !.pc = "parsed"]
    /\ UNCHANGED NotAddress

NextAddress == AddressStr \/ AddressParse

SpecAddress == InitAddress /\ [][NextAddress]_vars

\* ---- starting a system over a persistence backend
\* (test_actor_never_starts_if_persistence_startup_fails): the host has
\* configured a startup mode and a recovery policy, the backend is clean or
\* holds anomalies; the host calls start() and spawn() in any order
InitStartup ==
    /\ InitSystem
    /\ plan = PlanUnbounded
    /\ addr = NoAddr
    /\ store = NoStore
    /\ ops = NoOps
    /\ redis = NoRedis
    /\ \E mode \in StartupModes, recovery \in Modes, anomalies \in BOOLEAN :
          startup = Startup(mode, recovery, anomalies, FALSE)

\* ActorSystem.start: raises on a closed system, returns when the task group
\* exists, and otherwise creates the task group; the persistence backend, the
\* startup mode and the recovery policy are not looked at
SystemStart ==
    /\ cur = NoTask
    /\ startup.left > 0
    /\ startup' = [startup EXCEPT !.left = @ - 1,
                                  !.tg = IF sys_closed THEN @ ELSE TRUE]
    /\ UNCHANGED <<System, addr, store, ops, redis>>

\* ActorSystem.spawn before the task group exists: raises ActorStopped
SpawnRefused ==
    /\ cur = NoTask
    /\ startup.left > 0
    /\ sys_closed \/ ~startup.tg
    /\ startup' = [startup EXCEPT !.left = @ - 1]
    /\ hist' = [hist EXCEPT !.spawn = Append(@, "ActorStopped")]
    /\ UNCHANGED <<sys_closed, by_id, next_id, rts, registry, mailbox, dead_letters, tasks,
                   cur, now, calls, reply, plan, addr, store, ops, redis>>

NextStartup == SystemStart \/ SpawnRefused \/ Spawn

SpecStartup == InitStartup /\ [][NextStartup]_vars


\* ------------------------------------------------------------ properties
Frames(t) == {tasks[t].stack[k] : k \in 1..Len(tasks[t].stack)}

\* the loop of r has ended
LoopExited(r) == r \in Spawned /\ tasks[r].st = "done"

\* C1: the mailbox of a watcher W of T accepts exactly one ActorTerminated(T):
\* never two, and, for a W that was alive when T's loop terminated and whose
\* mailbox is still open, one at the latest when T's loop has ended.
C1_ExactlyOneActorTerminated ==
    \A t \in Spawned, w \in Spawned :
        /\ hist.notified[t][w] <= 1
        /\ (LoopExited(t) /\ w \in hist.owed[t] /\ rts[w].alive /\ ~mailbox[w].closed)
               => hist.notified[t][w] = 1

\* C2: when the loop of an actor exits after stop(ref) or stop_self was requested
\* on it while live, every envelope its mailbox had accepted by the time of the
\* request has been taken from the mailbox and passed to receive, in order.
C2_StopDrainsQueued ==
    \A r \in Spawned : LoopExited(r) => (hist.taken[r] >= hist.due[r] /\ hist.fifo[r])

\* C3: the reply an actor sends to a caller that has given up (AskTimeout) is
\* dropped: its failure never reaches supervision (_handle_failure).
C3_LateReplyIsDropped ==
    \A t \in TaskIds : \A f \in Frames(t) :
        ~(f.p \in {"handle_failure", "apply_supervisor_decision", "restart_actor",
                   "stop_runtime"}
          /\ f.exc = "ClosedResourceError")

\* C4: under RESTART(max_restarts = m, within_seconds = w) no m + 1 restarts of
\* one runtime lie within a window of length w.
C4_RestartBudget ==
    \A r \in Spawned : \A i \in 1..(Len(hist.restarts[r]) - rts[r].policy.max_restarts) :
        hist.restarts[r][i + rts[r].policy.max_restarts] - hist.restarts[r][i]
            > rts[r].policy.within_seconds

\* C5: once a named actor's loop has exited (and no restart of it is under way),
\* its name is absent from the registry.
C5_NameLeavesRegistry ==
    \A r \in Spawned :
        (LoopExited(r) /\ rts[r].name # NoName /\ ~rts[r].restarting)
            => registry[rts[r].name] # r

\* C6: no child stays alive under a parent that failed and whose loop has ended.
C6_FailureCascades ==
    \A p \in Spawned : \A k \in 1..Len(rts[p].children) :
        (LoopExited(p) /\ hist.failed[p]) => ~IsAlive(rts[p].children[k])

\* C7: every user instance gets on_start at most once and on_stop at most once,
\* and exactly once each when its runtime's loop has ended and nothing is still
\* working on the runtime.
C7_HooksOncePerInstance ==
    \A r \in Spawned : \A i \in 1..Len(hist.on_start[r]) :
        /\ hist.on_start[r][i] <= 1
        /\ hist.on_stop[r][i] <= 1
        /\ (LoopExited(r) /\ \A t \in TaskIds : \A f \in Frames(t) : f.rt # r)
               => (hist.on_start[r][i] = 1 /\ hist.on_stop[r][i] = 1)

\* an ask's channel holds, or its caller has got, the exception receive raised
ErrorDelivered(c) ==
    reply[c] \in {"RuntimeError", "ClosedResourceError"}
    \/ calls[c].result \in {"RuntimeError", "ClosedResourceError"}

C9_OneDeadLetterPerFailedSend ==
    /\ \A c \in CallIds :
          calls[c].result = "ActorStopped"
              => Cardinality({k \in 1..Len(dead_letters) : dead_letters[k].c = c}) = 1
    /\ \A k \in 1..Len(dead_letters) : calls[dead_letters[k].c].result = "ActorStopped"

\* envelopes the loop of r holds between the mailbox and receive
InHand(r) ==
    (IF tasks[r].item # NoEnv THEN 1 ELSE 0)
    + (IF tasks[r].stack # <<>> /\ Top(r).p = "run_actor" /\ Top(r).pc = "env" THEN 1 ELSE 0)

\* C10: across restarts a runtime keeps its address and its mailbox: every
\* envelope the mailbox accepted is still in it or has been taken by the loop,
\* and the loop takes them in the order they were accepted.
C10_RestartKeepsMailbox ==
    \A r \in Spawned :
        /\ rts[r].address = [system |-> SystemId, actor_id |-> r]
        /\ hist.fifo[r]
        /\ hist.accepted[r] - hist.taken[r] = Len(mailbox[r].buffer) + InHand(r)

\* C10, its case: an envelope that was queued behind the failing message, under
\* the instance that failed, is being received by the instance that replaced it
C10_Witness ==
    \E r \in Spawned :
        /\ hist.restarts[r] # <<>>
        /\ tasks[r].stack # <<>>
        /\ Top(r).p = "run_actor" /\ Top(r).pc = "receive"
        /\ hist.boom[r].n > 0
        /\ Top(r).env.n > hist.boom[r].n
        /\ Top(r).env.i = hist.boom[r].inst
        /\ Top(r).inst > hist.boom[r].inst

\* C11: no failure of user code escapes a run loop into the task group: no
\* loop's task ends with an exception.
C11_NoEscapeFromLoop ==
    \A r \in Spawned : tasks[r].st # "failed"

\* task t waits in Mailbox.put for room in a mailbox whose loop has ended: no
\* get will ever take its envelope
Stuck(t) ==
    /\ tasks[t].st = "put"
    /\ tasks[Top(t).rt].st \in {"done", "failed"}

\* C12: aclose() terminates: its caller never waits for good, and when it has
\* returned the system is closed, no runtime is alive, every mailbox is closed
\* and every loop has ended.
C12_AcloseTerminates ==
    \A c \in CallIds :
        calls[c].op = "aclose" =>
            /\ ~Stuck(c)
            /\ calls[c].result = "ok" =>
                  /\ sys_closed
                  /\ \A r \in Spawned :
                        (~rts[r].alive) /\ mailbox[r].closed /\ tasks[r].st = "done"

\* C13: an actor that stops itself, or that supervision stops in its own loop,
\* never waits for room in its own mailbox, of which it is the only consumer.
C13_SelfStopNeverBlocks ==
    \A r \in Spawned :
        ~(tasks[r].st = "put" /\ Top(r).p = "put" /\ Top(r).rt = r)

\* C14: a put on the mailbox of an actor spawned with capacity None never waits
\* (a put starts to wait on an open mailbox only).
C14_NoneIsUnbounded ==
    \A t \in TaskIds :
        ~(tasks[t].st = "put" /\ rts[Top(t).rt].capacity = None)

\* C15: neither tell nor ask raises MailboxClosed to its caller.
C15_MailboxClosedIsInternal ==
    \A c \in CallIds : calls[c].result # "MailboxClosed"

\* C16: a lookup (ref_for, ref_for_name) that returned a reference found its
\* runtime alive and not stopping, and a ref_for of another system's address
\* or of an id that no actor has did not return one.
C16_LookupsOnlyLiveActors ==
    \A c \in CallIds :
        calls[c].result = "ActorRef" =>
            /\ hist.live[c]
            /\ calls[c].op = "ref_for" =>
                  (calls[c].m = SystemId /\ calls[c].target \in Spawned)

\* a spawn under a name that the registry holds
DuplicateSpawn ==
    /\ plan.spawns # <<>>
    /\ plan'.spawns = Tail(plan.spawns)
    /\ Head(plan.spawns).name # NoName
    /\ registry[Head(plan.spawns).name] # NoRid

\* C17: a spawn under a registered name raises ValueError and changes nothing:
\* no id is consumed, no runtime, mailbox or task is created, no parent gets a
\* child, the registry keeps the name's address.
C17_DuplicateNameRejected ==
    [][DuplicateSpawn =>
          /\ hist'.spawn = Append(hist.spawn, "ValueError")
          /\ UNCHANGED <<sys_closed, by_id, next_id, rts, registry, mailbox, tasks>>]_vars

\* C17, its case: the second spawn under "svc" was refused, the first actor has
\* the name and no child, and the next id is still free
C17_Witness ==
    /\ Len(hist.spawn) = 2
    /\ hist.spawn[2] = "ValueError"
    /\ registry["svc"] = 1
    /\ rts[1].children = <<>>
    /\ next_id = 2

\* the k-th frame of task t is a loop inside `await rt.actor.receive(...)`: at
\* the call, suspended in it, or below the frames of a stop_self it awaits
InReceive(t, k) ==
    LET f == tasks[t].stack[k]
    IN  /\ f.p = "run_actor"
        /\ f.pc \in {"receive", "resume"} \/ (f.pc = "reply" /\ k > 1)

\* the receive invocations in progress for runtime r, as (task, frame) pairs
Receiving(r) ==
    {tk \in UNION {{<<t, k>> : k \in 1..Len(tasks[t].stack)} : t \in TaskIds} :
        InReceive(tk[1], tk[2]) /\ tasks[tk[1]].stack[tk[2]].rt = r}

\* C18: at most one receive invocation is in progress for a runtime at any
\* time, and it is one of the runtime's own loop.
C18_SequentialReceive ==
    \A r \in Spawned :
        /\ Cardinality(Receiving(r)) <= 1
        /\ \A tk \in Receiving(r) : tk[1] = r

\* C18, its case: a receive of the parent is suspended while the loop of its
\* child has restarted the parent: the runtime carries a newer instance than
\* the one whose receive is in progress
C18_Witness ==
    \E r \in Spawned :
        /\ tasks[r].stack # <<>>
        /\ Top(r).p = "run_actor" /\ Top(r).pc = "resume"
        /\ rts[r].actor > Top(r).inst
        /\ hist.boom[r].n = 0

\* C19: the messages of the driver's tell and ask calls that an actor's receive
\* gets arrive in the order of the calls (call ids grow with the order in which
\* the driver, one sender, made them), whatever the system's own envelopes
\* (STOP, ActorTerminated) do in between.
C19_SenderFifo ==
    \A r \in Spawned : \A i, j \in 1..Len(hist.order[r]) :
        i < j => hist.order[r][i] < hist.order[r][j]

\* C19, its case: two messages of the driver were in the mailbox together, the
\* get has returned the one of the earlier call to receive, the other one waits
C19_Witness ==
    \E r \in Spawned :
        /\ tasks[r].stack # <<>>
        /\ Top(r).p = "run_actor" /\ Top(r).pc = "receive"
        /\ Top(r).env.c > 0
        /\ hist.order[r] = <<Top(r).env.c>>
        /\ mailbox[r].buffer # <<>>
        /\ Head(mailbox[r].buffer).c > Top(r).env.c

\* C20: the dead-letter queue is bounded: it never holds more than its capacity
\* (here DeadLetterCapacity; the same for any capacity below MaxPushes).
C20_DeadLettersBounded ==
    Len(dead_letters) <= DeadLetterCapacity

\* C21: the string form of an address parses back to the same address: for
\* every address with a non-empty system id and an unsigned actor id,
\* parse(str(a)) returns an address equal to a.
C21_AddressRoundTrip ==
    addr.pc = "parsed" => addr.parsed.ok /\ addr.parsed.value = addr.a

\* C22: closing a persistence backend is final: once an aclose has returned,
\* the backend stays closed, no record_* call changes the files any more (not
\* even one that was already waiting for the lock), and a list_* call made
\* afterwards returns the records stored before the close.
C22_CloseIsFinal ==
    store.sealed.on =>
        /\ store.closed
        /\ store.files = store.sealed.files
        /\ \A p \in OpIds :
              ops[p].arg.op = "list" /\ ops[p].late =>
                  ops[p].result = ReadAll([store EXCEPT !.files = store.sealed.files])

\* C23: record_event, record_audit and record_dead_letter never raise to the
\* caller: a failed append adds exactly one to write_errors and leaves
\* records_written and bytes_written alone, and the call returns normally; a
\* successful append adds exactly one to records_written and leaves
\* write_errors alone.
C23_RecordNeverRaises ==
    \A i \in 1..Len(redis.log) :
        LET o == redis.log[i]
        IN  o.op = "record" =>
                /\ ~o.raised
                /\ o.failed =>
                      /\ o.after.metrics.write_errors = o.before.metrics.write_errors + 1
                      /\ o.after.metrics.records_written = o.before.metrics.records_written
                      /\ o.after.metrics.bytes_written = o.before.metrics.bytes_written
                /\ ~o.failed =>
                      /\ o.after.metrics.records_written = o.before.metrics.records_written + 1
                      /\ o.after.metrics.write_errors = o.before.metrics.write_errors

\* C24: on a rotating backend with max_files > 1, after any sequence of
\* appends at most max_files files exist, and the active file never holds more
\* than max_bytes when every record fits into max_bytes by itself.
C24_RotationBounds ==
    store.kind = "rotating" /\ store.max_files > 1 =>
        LET all == UNION {{store.files[i].data[j] : j \in 1..Len(store.files[i].data)} :
                             i \in DOMAIN store.files}
        IN  /\ Cardinality({i \in DOMAIN store.files : store.files[i].exists})
                   <= store.max_files
            /\ (\A l \in all : l.size <= store.max_bytes) =>
                   FileSize(store.files[0]) <= store.max_bytes

\* the calls before call p that recorded an event, in the order they were made
RecordedBefore(p) ==
    SelectSeq([q \in 1..(p - 1) |-> q],
              LAMBDA q : ops[q].arg.op = "record" /\ ops[q].arg.kind = "event")

Listed(p) == [i \in 1..Len(ops[p].result) |-> ops[p].result[i].id]

C26_RecoverLeavesCleanStore ==
    \A i \in 2..Len(redis.log) :
        LET first == redis.log[i - 1]
            o == redis.log[i]
        IN  first.op = "recover" /\ first.mode \in {"REPAIR", "QUARANTINE"} /\ ~first.raised =>
                /\ o.op = "scan" => o.anomalies = 0
                /\ o.op = "recover" /\ ~o.raised =>
                      /\ o.after.streams = o.before.streams
                      /\ o.after.quarantine = o.before.quarantine

\* the entries that have been removed from the stream of a key
Removed(k) == redis.seen[k] \ {redis.streams[k][i] : i \in 1..Len(redis.streams[k])}

\* the mode of the recover calls of the run
RecoveryMode ==
    IF redis.script # <<>> THEN Head(redis.script).mode
    ELSE redis.log[Len(redis.log)].mode

\* C27: quarantine never loses data. At every moment of a recovery: an entry
\* that is gone from a source stream was invalid; in QUARANTINE mode it is in
\* the quarantine stream of its source, with the source key and with its
\* payload (the text of its data field, when it has one); a
\* recovery whose republishing failed has deleted nothing from that stream; in
\* REPAIR (and IGNORE) mode nothing is written to a quarantine stream.
C27_QuarantineKeepsData ==
    /\ \A k \in Kinds : \A e \in Removed(k) :
          /\ e.form # "object"
          /\ RecoveryMode = "QUARANTINE" =>
                \E i \in 1..Len(redis.quarantine[k]) :
                    /\ redis.quarantine[k][i].source = k
                    /\ e.form = "junk" => redis.quarantine[k][i].data = e.id
    /\ RecoveryMode # "QUARANTINE" => \A k \in Kinds : redis.quarantine[k] = <<>>
    /\ \A i \in 1..Len(redis.log) :
          LET o == redis.log[i]
          IN  o.op = "recover" /\ o.raised /\ o.pc = "xadd" =>
                  o.after.streams[Keys[o.key]] = o.before.streams[Keys[o.key]]

\* a recovery in QUARANTINE mode has removed an invalid entry and returned,
\* and a valid entry is still in that stream
C27_Witness ==
    /\ redis.log # <<>>
    /\ redis.log[1].op = "recover" /\ redis.log[1].mode = "QUARANTINE" /\ ~redis.log[1].raised
    /\ \E k \in Kinds : Removed(k) # {} /\ redis.streams[k] # <<>>

\* the calls that recorded an event after call p did, in the order of the lock
NewerRecords(p) ==
    LET i == CHOOSE j \in 1..Len(store.locked) : store.locked[j] = p
    IN  SelectSeq(SubSeq(store.locked, i + 1, Len(store.locked)),
                  LAMBDA q : ops[q].arg.op = "record" /\ ops[q].pc = "done")

Writers(cs) == SelectSeq(cs, LAMBDA q : ops[q].arg.op = "record")

\* C29: concurrent record_event, record_audit and record_dead_letter calls on
\* an open NDJSON backend without retention are serialized by the lock: the
\* file holds exactly one complete line for every call that has returned, the
\* lines are in the order in which the calls held the lock, and a list_* call
\* returns the records of its kind of every call that had returned, in that
\* order.
C29_WritesSerialized ==
    LET data == store.files[0].data
        done == SelectSeq(store.locked, LAMBDA q : ops[q].pc = "done")
    IN  /\ [i \in 1..Len(data) |-> data[i].id] = Writers(done)
        /\ \A i \in 1..Len(data) : data[i].ok /\ data[i].kind = ops[data[i].id].arg.kind
        /\ \A p \in OpIds :
              ops[p].arg.op = "list" /\ ops[p].pc = "done" =>
                  Listed(p) = SelectSeq(Writers(ops[p].seen),
                                        LAMBDA q : ops[q].arg.kind = ops[p].arg.kind)

\* two record calls waited for the lock while a third one held it, and a list
\* call returned the three records
C29_Witness ==
    \E p, q, r, l \in OpIds :
        /\ p < q /\ q < r /\ r < l
        /\ ops[q].seen = <<p>> /\ ops[r].seen = <<p>>
        /\ \A w \in {p, q, r} : ops[w].arg.op = "record" /\ ops[w].pc = "done"
        /\ ops[l].arg.op = "list" /\ ops[l].pc = "done"
        /\ Listed(l) = <<p, q, r>>

\* the records of the kind of list call p that were stored when p read them:
\* the calls that had written, after retention
Stored(p) ==
    SelectSeq(ApplyRetention(Writers(ops[p].seen), store.retention),
              LAMBDA q : ops[q].arg.kind = ops[p].arg.kind)

\* C30 as stated: with k stored records of the kind, list_*(limit=n) returns
\* exactly the newest min(n, k) of them, in insertion order, for every n >= 0;
\* limit=0 returns the empty tuple.
C30_LimitHonoured ==
    \A p \in OpIds :
        ops[p].arg.op = "list" /\ ops[p].pc = "done" /\ ops[p].arg.limit # None =>
            LET all == Stored(p)
                k == Len(all)
                n == ops[p].arg.limit
                m == IF n < k THEN n ELSE k
            IN  Listed(p) = SubSeq(all, k - m + 1, k)

\* C31 as stated: list_*(since=s) returns exactly the stored records of its
\* kind whose timestamp is >= s, in the order they were stored, for every s and
\* every timestamp including 0, on the NDJSON and on the rotating backend.
C31_SinceExact ==
    \A p \in OpIds :
        ops[p].arg.op = "list" /\ ops[p].pc = "done" /\ ops[p].arg.since # None =>
            Listed(p) = SelectSeq(Stored(p), LAMBDA q : ops[q].arg.ts >= ops[p].arg.since)

\* C32 as stated: with startup mode FAIL_ON_ANOMALY and a scan that reports
\* anomalies no task group is created, every spawn raises and no actor task
\* exists, so that no on_start ever runs; with mode RECOVER over a backend with anomalies, recover has been
\* invoked with the configured recovery policy and has completed before an
\* actor is spawned.
C32_StartupOrdering ==
    /\ startup.mode = "FAIL_ON_ANOMALY" /\ startup.anomalies =>
          /\ ~startup.tg
          /\ by_id = <<>>
          /\ \A i \in 1..Len(hist.spawn) : hist.spawn[i] = "ActorStopped"
          /\ \A r \in Rids : tasks[r] = NoTaskState
    /\ startup.mode = "RECOVER" /\ (startup.anomalies \/ startup.recovered # <<>>) =>
          (startup.tg \/ by_id # <<>> => startup.recovered = <<startup.recovery>>)

\* what supervision does to the runtime of frame f, read off the stack it
\* leaves: a cascading stop of the runtime, a restart of it, or supervision of
\* its parent with the same error, after which the frame goes on
Does(stack, f, what) ==
    LET g == Head(stack)
    IN  /\ stack # <<>>
        /\ what = "stop" => g = StopRuntimeFrame(f.rt)
        /\ what = "restart" => g = Frame("restart_actor", "call", f.rt)
        /\ what = "escalate" =>
              /\ g = [Frame("handle_failure", "call", rts[f.rt].parent) EXCEPT !.exc = f.exc]
              /\ Len(stack) > 1 /\ stack[2] = [f EXCEPT !.pc = "escalated"]

\* the step that task t takes from supervision of a runtime that has a parent:
\* the hook on_child_failure has returned a decision, which is applied next, or
\* it has returned None or raised, and the policy of the runtime is applied
Consulted(t, stack) ==
    LET f == Top(t)
    IN  \/ \E d \in plan.decisions \cap Decisions :
              /\ stack # <<>>
              /\ Head(stack) = [f EXCEPT !.p = "apply_supervisor_decision", !.d = d]
        \/ "none" \in plan.decisions /\ Does(stack, f, rts[f.rt].policy.strategy)

InSupervision(t) ==
    /\ tasks[t].stack # <<>>
    /\ Top(t).p = "handle_failure" /\ Top(t).pc = "call"
    /\ rts[Top(t).rt].parent # NoRid

DecisionApplied(t, stack) ==
    /\ tasks[t].stack # <<>>
    /\ Top(t).p = "apply_supervisor_decision" /\ Top(t).pc = "call"
    => Does(stack, Top(t), IF Top(t).d = "ignore" THEN "stop" ELSE Top(t).d)

\* C33 as stated: whenever an actor that has a parent fails, the parent's
\* on_child_failure is consulted first; a decision it returns is applied
\* (RESTART restarts, STOP and IGNORE stop, ESCALATE goes to the parent's
\* supervision), and with None or an exception the child's policy is applied.
C33_ParentFirst ==
    [][\A t \in TaskIds :
          tasks'[t].stack # tasks[t].stack =>
              /\ InSupervision(t) => Consulted(t, tasks'[t].stack)
              /\ DecisionApplied(t, tasks'[t].stack)]_vars

\* C33 amended: the same for a failing actor that is not already stopping; an
\* actor that fails while it is stopping is marked not alive and nothing else
\* happens: its parent is not consulted and no policy is applied.
C33_ParentFirstUnlessStopping ==
    [][\A t \in TaskIds :
          tasks'[t].stack # tasks[t].stack =>
              /\ InSupervision(t) =>
                    IF rts[Top(t).rt].stopping
                    THEN /\ tasks'[t].stack = Tail(tasks[t].stack)
                         /\ rts' = [rts EXCEPT ![Top(t).rt].alive = FALSE]
                    ELSE Consulted(t, tasks'[t].stack)
              /\ DecisionApplied(t, tasks'[t].stack)]_vars

\* C33, its case: a child with policy STOP lives on with a second instance,
\* because its parent decided RESTART
C33_Witness ==
    /\ plan.decisions # {"none"}
    /\ Len(by_id) = 2
    /\ rts[2].parent = 1 /\ rts[2].policy.strategy = "stop"
    /\ hist.failed[2] /\ rts[2].actor = 2 /\ rts[2].alive /\ ~rts[2].stopping

\* task t is about to finish an ESCALATE: the supervision of the parent has
\* returned (decision or policy), or the policy is ESCALATE and the failing
\* runtime has no parent
Escalated(t) ==
    /\ tasks[t].stack # <<>>
    /\ \/ Top(t).pc = "escalated"
       \/ /\ Top(t).p = "handle_failure" /\ Top(t).pc = "call"
          /\ ~rts[Top(t).rt].stopping
          /\ rts[Top(t).rt].parent = NoRid
          /\ rts[Top(t).rt].policy.strategy = "escalate"

\* C34 as stated: under ESCALATE, by the parent's decision or by the child's
\* own policy, supervision is invoked on the parent with the same error and
\* afterwards the failing child is cascade-stopped (_stop_runtime marks it and
\* its descendants stopping and sends them STOP); a child without a parent is
\* cascade-stopped directly.
C34_EscalateCascades ==
    [][\A t \in TaskIds :
          tasks'[t].stack # tasks[t].stack /\ Escalated(t) =>
              Does(tasks'[t].stack, Top(t), "stop")]_vars

\* the children of a runtime, and all runtimes below it
Children(r) == {rts[r].children[i] : i \in 1..Len(rts[r].children)}

Descendants(r) ==
    LET RECURSIVE Below(_, _)
        Below(S, n) == IF n = 0 THEN S
                       ELSE Below(S \cup UNION {Children(x) : x \in S}, n - 1)
    IN  Below(Children(r), MaxActors)

\* the tells that were issued after a stop of their target, or of a runtime
\* above it, had returned, have raised ActorStopped
TellsAfterStop ==
    \A c1, c2 \in CallIds :
        /\ c1 < c2
        /\ calls[c1].op = "stop" /\ calls[c1].target \in Spawned
        /\ calls[c2].op = "tell" /\ calls[c2].result # "none"
        /\ calls[c2].target \in {calls[c1].target} \cup Descendants(calls[c1].target)
        => calls[c2].result = "ActorStopped"

\* C38 as stated: a stop request is never undone. No step takes the stopping
\* mark from a runtime, also not a restart of it that is in progress, and every
\* tell issued after stop() returned raises ActorStopped.
C38_StopNeverUndone ==
    [][/\ \A r \in Rids : rts[r].stopping => rts'[r].stopping
       /\ TellsAfterStop']_vars

\* a STOP envelope waits for the actor
StopQueued(d) ==
    \/ \E i \in DOMAIN mailbox[d].buffer : mailbox[d].buffer[i].m = "STOP"
    \/ tasks[d].item.m = "STOP"

\* _stop_runtime(rt) has gone through the descendants of rt when it marks rt:
\* each of them is stopping or dead, or has its STOP envelope
MarkedAfterDescendants(t) ==
    LET f == Top(t)
    IN  /\ f.p = "stop_runtime" /\ f.pc = "self"
        /\ ~rts[f.rt].stopping /\ rts'[f.rt].stopping
        => \A d \in Descendants(f.rt) : ~IsAlive(d) \/ StopQueued(d)

\* _stop_runtime(rt) goes through a snapshot of the children of rt first,
\* whatever the flags of rt are
DescendantsProcessed(t) ==
    LET f == Top(t)
    IN  /\ f.p = "stop_runtime" /\ f.pc = "enter"
        /\ f.rt \notin tasks[t].seen
        => /\ tasks'[t].stack # <<>>
           /\ Head(tasks'[t].stack) = [f EXCEPT !.pc = "children", !.todo = rts[f.rt].children,
                                                !.d = FoundStopped(f.rt)]

\* stop(ref) returns: the actor and every descendant report not alive
StoppedOnReturn(c) ==
    /\ calls[c].op = "stop" /\ calls[c].target \in Spawned
    /\ calls[c].result = "none" /\ calls'[c].result # "none"
    => \A d \in {calls[c].target} \cup Descendants(calls[c].target) : ~IsAlive(d)

\* C35 as stated: _stop_runtime(rt) stops children before parents: when rt is
\* marked stopping every descendant has been marked stopping (or is dead), the
\* descendants are gone through depth first over a snapshot of the children
\* also when rt itself is stopping or dead, and when stop(parent) returns the
\* parent and every descendant report not alive.
C35_ChildrenBeforeParents ==
    [][/\ \A t \in TaskIds :
             tasks[t].stack # <<>> /\ tasks'[t].stack # tasks[t].stack =>
                 MarkedAfterDescendants(t) /\ DescendantsProcessed(t)
       /\ \A c \in CallIds : StoppedOnReturn(c)]_vars

\* The system driven by PlanStopAgain alone; its Next has the steps this plan
\* can take (the other actions of Next are never enabled under it).
InitStopAgain ==
    /\ InitPlanned({PlanStopAgain})
    /\ startup = Running
    /\ addr = NoAddr
    /\ store = NoStore
    /\ ops = NoOps
    /\ redis = NoRedis

StepStopAgain(t) ==
    \/ Put_check(t) \/ Put_send(t)
    \/ RunActor_start(t) \/ RunActor_started(t) \/ RunActor_loop(t)
    \/ RunActor_get(t) \/ RunActor_got(t) \/ RunActor_env(t)
    \/ RunActor_finally(t) \/ RunActor_notify(t) \/ RunActor_on_stop(t)
    \/ RunActor_aclose(t)
    \/ SafeOnStart_ok(t) \/ SafeOnStart_raise(t) \/ SafeOnStart_failed(t)
    \/ SafeOnStop_return(t) \/ SafeOnStop_await(t) \/ SafeOnStop_resumed(t)
    \/ HandleFailure_stopping(t) \/ HandleFailure_policy(t)
    \/ StopRuntime_enter(t) \/ StopRuntime_children(t) \/ StopRuntime_self(t)
    \/ StopRuntime_watchers(t) \/ StopRuntime_stop(t) \/ StopRuntime_stopped(t)
    \/ Stop(t)
    \/ RestartActor(t) \/ RestartActor_stopped(t) \/ RestartActor_started(t)
    \/ Call_return(t)

NextStopAgain ==
    \/ Spawn
    \/ Call_stop
    \/ Tick
    \/ \E t \in TaskIds : StepStopAgain(t)

SpecStopAgain == InitStopAgain /\ [][NextStopAgain]_vars

\* a step of _stop_runtime(rt) that was invoked on a stopping or dead rt
StopsAgain(t) ==
    /\ tasks[t].stack # <<>> /\ tasks'[t].stack # tasks[t].stack
    /\ Top(t).p = "stop_runtime" /\ Top(t).d = "stopped"

\* the step leaves the flags of rt alone and starts no put of ActorTerminated(rt)
\* or of STOP to rt
LeavesAlone(t) ==
    LET f == Top(t)
        new == tasks'[t].stack
    IN  /\ rts'[f.rt] = rts[f.rt]
        /\ \/ new = <<>>
           \/ Head(new).p # "put"
           \/ Head(new).env \notin {STOP, ActorTerminated(f.rt)}

\* stop(ref) on a closed system or with a reference the system does not know
StopNoOp(t) ==
    /\ tasks[t].stack # <<>> /\ tasks'[t].stack # tasks[t].stack
    /\ Top(t).p = "stop" /\ (sys_closed \/ Top(t).rt \notin Spawned)
    => /\ tasks'[t].stack = Return(t)
       /\ UNCHANGED <<rts, mailbox, registry, dead_letters>>

\* C36 as stated: stop(ref)/_stop_runtime invoked on an actor that is already
\* stopping or not alive changes no flag of that actor, enqueues no further
\* STOP envelope and sends no further ActorTerminated to a watcher; stop on a
\* closed system or with an unknown reference is a no-op.
C36_StopIdempotent ==
    [][\A t \in TaskIds : (StopsAgain(t) => LeavesAlone(t)) /\ StopNoOp(t)]_vars

\* receive is in progress on instance i of actor r
ReceivesOn(r, i) ==
    \E k \in DOMAIN tasks[r].stack :
        LET f == tasks[r].stack[k]
        IN  f.p = "run_actor" /\ f.pc = "receive" /\ f.rt = r /\ f.inst = i

\* C37: an instance whose on_start raised never handles a message: receive is
\* not invoked on it, also when envelopes were queued before the actor task
\* first ran.
C37_FailedStartNeverReceives ==
    \A r \in Rids : hist.start_failed[r] # 0 => ~ReceivesOn(r, hist.start_failed[r])

\* The event loop runs a task that is ready: a coroutine that can take a step
\* is not left waiting forever.
SpecLive == Spec /\ WF_vars(\E t \in TaskIds : Step(t))

\* the put of the ask of caller c has returned: its envelope is in the mailbox
\* of the target (or was handed to its loop) and the caller waits for the reply
AskAccepted(c) ==
    /\ calls[c].op = "ask" /\ ~calls[c].timeout
    /\ tasks[c].stack # <<>>
    /\ Top(c).p = "ask" /\ Top(c).pc \in {"receive", "reply"}

\* C39: every ask without timeout whose envelope was accepted into the mailbox
\* eventually returns a value or raises, also when the actor stops before it
\* handles the envelope.
C39_AskReturns ==
    \A c \in CallIds : AskAccepted(c) ~> (calls[c].result # "none")

\* C40: the hooks of one instance never overlap its message handling: no
\* receive is in progress on an instance whose on_stop has been invoked (on_stop
\* is not invoked while a receive on that instance is in progress, and no
\* receive runs on it afterwards), also when a child's escalated failure
\* restarts the parent from the child's loop while the parent is suspended
\* inside receive.
C40_HooksNeverOverlap ==
    \A r \in Spawned : \A tk \in Receiving(r) :
        LET i == tasks[tk[1]].stack[tk[2]].inst
        IN  i \in DOMAIN hist.on_stop[r] => hist.on_stop[r][i] = 0

====
